---- MODULE Spec2Model ----
(***************************************************************************)
(* Model of the analytics engines of the financial modelling platform:     *)
(*   analytics-engine/src/models/DCFModel.js   (class DCFModel)            *)
(*   analytics-engine/src/models/LBOModel.js   (class LBOModel)            *)
(*                                                                         *)
(* JavaScript numbers are modelled as fixed-point decimals with Scale      *)
(* units per 1.0 (0.10 is 100, 0.025 is 25, 150.00 is 150000), together    *)
(* with the three non-finite doubles +Infinity, -Infinity and NaN.  A      *)
(* finite result whose magnitude reaches Huge overflows to an infinity,    *)
(* as a double does at Number.MAX_VALUE.  `undefined` read from an array   *)
(* is the value NaN: it is falsy under ||, and arithmetic on it is NaN.    *)
(***************************************************************************)
EXTENDS Integers, Sequences, FiniteSets, TLC

VARIABLES
    dcf,            \* the DCFModel instance: its four fields (None: the caller has none)
    financialData,  \* the caller's financialData object
    projections,    \* the caller's projections object
    lbo,            \* the LBOModel instance: its four fields (None: the caller has none)
    dealParams,     \* the caller's dealParams object
    call,           \* the last completed call on the instance and its outcome
    lastDCF,        \* instance fields and outcome of the latest calculateDCF call
    rootFinder      \* the calculateIRR call that is running, if any

vars == <<dcf, financialData, projections, lbo, dealParams, call, lastDCF, rootFinder>>

(***************************************************************************)
(* Numbers                                                                 *)
(***************************************************************************)
Scale == 1000
Huge == 1000000000
PInf == Huge
NInf == -Huge
NaN == Huge + 1

IsNaN(x) == x = NaN
IsInf(x) == x = PInf \/ x = NInf

Sgn(x) == IF x > 0 THEN 1 ELSE IF x < 0 THEN -1 ELSE 0
Mag(x) == IF x < 0 THEN -x ELSE x

\* a finite result, overflowing to an infinity
Sat(n) == IF n >= Huge THEN PInf ELSE IF n <= -Huge THEN NInf ELSE n

\* integer quotient rounded to nearest, b # 0
RDiv(a, b) ==
    LET q == Mag(a) \div Mag(b)
        r == Mag(a) % Mag(b)
        m == IF r >= Mag(b) - r THEN q + 1 ELSE q
    IN  Sgn(a) * Sgn(b) * m

Neg(x) == IF IsNaN(x) THEN NaN ELSE -x

Add(x, y) ==
    IF IsNaN(x) \/ IsNaN(y) THEN NaN
    ELSE IF IsInf(x) THEN (IF IsInf(y) /\ y # x THEN NaN ELSE x)
    ELSE IF IsInf(y) THEN y
    ELSE Sat(x + y)

Sub(x, y) == Add(x, Neg(y))

\* x * y
Mul(x, y) ==
    IF IsNaN(x) \/ IsNaN(y) THEN NaN
    ELSE IF x = 0 \/ y = 0 THEN (IF IsInf(x) \/ IsInf(y) THEN NaN ELSE 0)
    ELSE IF IsInf(x) \/ IsInf(y) THEN Sgn(x) * Sgn(y) * PInf
    ELSE IF Mag(x) > (2 * Huge) \div Mag(y) THEN Sgn(x) * Sgn(y) * PInf
    ELSE Sat(RDiv(x * y, Scale))

\* x / y
Div(x, y) ==
    IF IsNaN(x) \/ IsNaN(y) THEN NaN
    ELSE IF IsInf(x) THEN (IF IsInf(y) THEN NaN
                           ELSE IF y < 0 THEN Neg(x) ELSE x)
    ELSE IF IsInf(y) THEN 0
    ELSE IF y = 0 THEN (IF x = 0 THEN NaN ELSE Sgn(x) * PInf)
    ELSE IF Mag(x) <= (2 * Huge) \div Scale THEN Sat(RDiv(x * Scale, y))
    ELSE IF Mag(RDiv(x, y)) >= Huge \div Scale THEN Sgn(x) * Sgn(y) * PInf
    ELSE RDiv(x, y) * Scale

\* i * x for a loop index i
Times(i, x) ==
    IF IsNaN(x) THEN NaN
    ELSE IF i = 0 THEN (IF IsInf(x) THEN NaN ELSE 0)
    ELSE IF IsInf(x) THEN Sgn(i) * x
    ELSE IF Mag(x) > (2 * Huge) \div Mag(i) THEN Sgn(i) * Sgn(x) * PInf
    ELSE Sat(i * x)

\* Math.pow(b, n) for an integer n >= 0; Math.pow(NaN, 0) is 1
RECURSIVE MathPow(_, _)
MathPow(b, n) ==
    IF n <= 0 THEN Scale
    ELSE CHOOSE power \in {Mul(lower, base) : lower \in {MathPow(b, n - 1)}, base \in {b}} : TRUE

Lt(x, y) == ~IsNaN(x) /\ ~IsNaN(y) /\ x < y
Le(x, y) == ~IsNaN(x) /\ ~IsNaN(y) /\ x <= y
Gt(x, y) == Lt(y, x)
Ge(x, y) == Le(y, x)

MathAbs(x) == IF IsNaN(x) THEN NaN ELSE Mag(x)
MathMax(x, y) == IF IsNaN(x) \/ IsNaN(y) THEN NaN ELSE IF x >= y THEN x ELSE y
MathMin(x, y) == IF IsNaN(x) \/ IsNaN(y) THEN NaN ELSE IF x <= y THEN x ELSE y

\* a || b on numbers: 0, NaN and undefined are falsy
Truthy(x) == x # 0 /\ ~IsNaN(x)
Or(x, d) == IF Truthy(x) THEN x ELSE d

\* arr[i] of a JavaScript array held as a sequence (arr[0] is the first element)
At(arr, i) == IF i + 1 \in DOMAIN arr THEN arr[i + 1] ELSE NaN

(***************************************************************************)
(* Exceptions and completions.  A method call completes by returning a     *)
(* value or by throwing; `this` is the instance as the call leaves it.     *)
(***************************************************************************)
Return(v, this) == [threw |-> FALSE, value |-> v, this |-> this]
Throw(msg, this) == [threw |-> TRUE, value |-> [message |-> msg], this |-> this]

(***************************************************************************)
(* Math.random and normalRandom.  Math.random() is a value of the grid     *)
(* Uniforms; the uniforms consumed by one Monte Carlo draw are a stream    *)
(* (first, step) over that grid, chosen afresh for every draw.             *)
(***************************************************************************)
Uniforms == <<0, 250, 500, 750>>
Streams == [first : 0..3, step : {1}]
MathRandom(stream, k) == Uniforms[((stream.first + k * stream.step) % 4) + 1]

\* Math.sqrt(-2 * Math.log(u1)) on the grid: log(0) is -Infinity
SqrtLog(u1) == CASE u1 = 0 -> PInf [] u1 = 250 -> 1665 [] u1 = 500 -> 1177 [] OTHER -> 759
\* Math.cos(2 * Math.PI * u2) on the grid: +1, +0, -1, -0 to model precision
Cos2Pi(u2) == CASE u2 = 0 -> 1000 [] u2 = 500 -> -1000 [] OTHER -> 0
\* the double computed at 1/4 and 3/4 is tiny but not zero: its sign decides Infinity * cos
CosSign(u2) == IF u2 = 0 \/ u2 = 250 THEN 1 ELSE -1

normalRandom(mean, std, u1, u2) ==
    LET z0 == IF u1 = 0 THEN CosSign(u2) * PInf ELSE Mul(SqrtLog(u1), Cos2Pi(u2))
    IN  Add(mean, Mul(z0, std))

(***************************************************************************)
(* DCFModel                                                                *)
(***************************************************************************)
\* a faulty variant: only an option that is left out is replaced by its default
DCFModelNullish(options) ==
    [discountRate       |-> IF IsNaN(options.discountRate) THEN 100 ELSE options.discountRate,
     terminalGrowthRate |-> IF IsNaN(options.terminalGrowthRate) THEN 25
                            ELSE options.terminalGrowthRate,
     projectionYears    |-> IF IsNaN(options.projectionYears) THEN 5
                            ELSE options.projectionYears,
     taxRate            |-> IF IsNaN(options.taxRate) THEN 250 ELSE options.taxRate]

\* new DCFModel(options): an option that is left out is undefined, NaN here, which `||`
\* replaces as it replaces 0
DCFModel(options) ==
    [discountRate       |-> Or(options.discountRate, 100),
     terminalGrowthRate |-> Or(options.terminalGrowthRate, 25),
     projectionYears    |-> Or(options.projectionYears, 5),
     taxRate            |-> Or(options.taxRate, 250)]

ProjectionFields == {"revenueGrowth", "ebitdaMargin", "depreciation", "capex", "workingCapitalChange"}

\* reading projections.<field>[i] of a missing array is a TypeError
MissingArray(pr) == \E f \in ProjectionFields : f \notin DOMAIN pr

\* calculateDCF, lines 42-49: what one year reads from the projections
DCFRevenue(pr, year, lastRevenue) ==
    Mul(lastRevenue, Add(Scale, Or(At(pr.revenueGrowth, year - 1), 0)))
DCFEbitda(pr, year, revenue) == Mul(revenue, Or(At(pr.ebitdaMargin, year - 1), 150))
DCFDepreciation(pr, year, revenue) == Or(At(pr.depreciation, year - 1), Mul(revenue, 30))
DCFCapex(pr, year, revenue) == Or(At(pr.capex, year - 1), Mul(revenue, 40))
DCFWorkingCapitalChange(pr, year) == Or(At(pr.workingCapitalChange, year - 1), 0)

\* calculateDCF, lines 45-62: the record pushed for one year
DCFYearRecord(this, year, revenue, ebitda, depreciation, capex, workingCapitalChange) ==
    LET ebit == Sub(ebitda, depreciation)
        nopat == Sub(ebit, Mul(ebit, this.taxRate))
        freeCashFlow == Sub(Sub(Add(nopat, depreciation), capex), workingCapitalChange)
    IN  [year |-> year, revenue |-> revenue, ebitda |-> ebitda, ebit |-> ebit,
         nopat |-> nopat, freeCashFlow |-> freeCashFlow,
         presentValue |-> Div(freeCashFlow, MathPow(Add(Scale, this.discountRate), year))]

DCFYearOfRevenue(this, pr, year, revenue) ==
    DCFYearRecord(this, year, revenue, DCFEbitda(pr, year, revenue),
                  DCFDepreciation(pr, year, revenue), DCFCapex(pr, year, revenue),
                  DCFWorkingCapitalChange(pr, year))

\* one pass of the loop body of calculateDCF, year = 1..projectionYears
DCFYear(this, pr, year, lastRevenue) ==
    DCFYearOfRevenue(this, pr, year, DCFRevenue(pr, year, lastRevenue))

RECURSIVE DCFLoop(_, _, _, _, _)
\* a faulty variant: the record of a year is put in front of those of the years before
DCFPushInFront(this, pr, year, rec, cashFlows) ==
    DCFLoop(this, pr, year + 1, rec.revenue, <<rec>> \o cashFlows)
DCFPush(this, pr, year, rec, cashFlows) ==
    DCFLoop(this, pr, year + 1, rec.revenue, Append(cashFlows, rec))
DCFLoop(this, pr, year, lastRevenue, cashFlows) ==
    IF year > this.projectionYears THEN cashFlows
    ELSE DCFPush(this, pr, year, DCFYear(this, pr, year, lastRevenue), cashFlows)

\* totalPV += presentValue, over the first n years
RECURSIVE SumPresentValue(_, _)
SumPresentValue(cashFlows, n) ==
    IF n = 0 THEN 0 ELSE Add(SumPresentValue(cashFlows, n - 1), cashFlows[n].presentValue)

\* the statements of calculateDCF that can raise a TypeError
DCFTypeError(this, pr) ==
    \/ this.projectionYears >= 1 /\ MissingArray(pr)
    \/ this.projectionYears < 1

\* a faulty variant: the last free cash flow is capitalised without one more year of growth
DCFTerminalValueUngrown(this, projectedCashFlows) ==
    Div(projectedCashFlows[this.projectionYears].freeCashFlow,
        Sub(this.discountRate, this.terminalGrowthRate))

DCFTerminalValue(this, projectedCashFlows) ==
    Div(Mul(projectedCashFlows[this.projectionYears].freeCashFlow,
            Add(Scale, this.terminalGrowthRate)),
        Sub(this.discountRate, this.terminalGrowthRate))

DCFPresentValue(this, projectedCashFlows, terminalValue) ==
    Add(SumPresentValue(projectedCashFlows, Len(projectedCashFlows)),
        Div(terminalValue, MathPow(Add(Scale, this.discountRate), this.projectionYears)))

DCFIntrinsicValue(sharesOutstanding, presentValue) ==
    IF Gt(sharesOutstanding, 0) THEN Div(presentValue, sharesOutstanding) ELSE 0

\* a faulty variant: the test of currentPrice is not nested in that of sharesOutstanding
DCFUpsideUnnested(sharesOutstanding, currentPrice, intrinsicValue) ==
    IF Gt(currentPrice, 0) THEN Div(Sub(intrinsicValue, currentPrice), currentPrice) ELSE 0

DCFUpside(sharesOutstanding, currentPrice, intrinsicValue) ==
    IF Gt(sharesOutstanding, 0) /\ Gt(currentPrice, 0)
    THEN Div(Sub(intrinsicValue, currentPrice), currentPrice) ELSE 0

DCFResults(this, sharesOutstanding, currentPrice, projectedCashFlows, terminalValue, presentValue, intrinsicValue) ==
    [projectedCashFlows |-> projectedCashFlows,
     terminalValue |-> terminalValue,
     presentValue |-> presentValue,
     sharesOutstanding |-> sharesOutstanding,
     intrinsicValue |-> intrinsicValue,
     currentPrice |-> currentPrice,
     upside |-> DCFUpside(sharesOutstanding, currentPrice, intrinsicValue),
     assumptions |-> this]

DCFValued(this, sharesOutstanding, currentPrice, projectedCashFlows, terminalValue, presentValue) ==
    DCFResults(this, sharesOutstanding, currentPrice, projectedCashFlows, terminalValue,
               presentValue, DCFIntrinsicValue(sharesOutstanding, presentValue))

DCFTerminal(this, fd, projectedCashFlows, terminalValue) ==
    DCFValued(this, Or(fd.sharesOutstanding, 0), Or(fd.currentPrice, 0), projectedCashFlows,
              terminalValue, DCFPresentValue(this, projectedCashFlows, terminalValue))

DCFProjected(this, fd, projectedCashFlows) ==
    DCFTerminal(this, fd, projectedCashFlows, DCFTerminalValue(this, projectedCashFlows))

\* a faulty variant: the terminal growth rate of the instance is capped at 2.5% in place
\* before the valuation
calculateDCFCapping(this, fd, pr) ==
    IF DCFTypeError(this, pr) THEN Throw("DCF calculation failed", this)
    ELSE Return(DCFProjected([this EXCEPT !.terminalGrowthRate = MathMin(@, 25)], fd,
                             DCFLoop(this, pr, 1, Or(fd.revenue, 0), <<>>)),
                [this EXCEPT !.terminalGrowthRate = MathMin(@, 25)])

calculateDCF(this, fd, pr) ==
    IF DCFTypeError(this, pr) THEN Throw("DCF calculation failed", this)
    ELSE Return(DCFProjected(this, fd, DCFLoop(this, pr, 1, Or(fd.revenue, 0), <<>>)), this)

(***************************************************************************)
(* DCFModel.sensitivityAnalysis                                            *)
(***************************************************************************)
DefaultDiscountRates == <<80, 90, 100, 110, 120>>
DefaultTerminalGrowthRates == <<15, 20, 25, 30, 35>>

\* sensitivityRanges.<field> || <default>: an array, even an empty one, is truthy
RangeOr(ranges, field, default) == IF field \in DOMAIN ranges THEN ranges[field] ELSE default

\* lines 108-109 and 121-122: the two instance fields overwritten
WithRates(this, discountRate, terminalGrowthRate) ==
    [this EXCEPT !.discountRate = discountRate, !.terminalGrowthRate = terminalGrowthRate]

\* a faulty variant: the two rates are written to each other's field
SensitivityEntrySwapped(discountRate, terminalGrowthRate, results) ==
    [discountRate |-> terminalGrowthRate, terminalGrowthRate |-> discountRate,
     intrinsicValue |-> results.intrinsicValue, upside |-> results.upside]

SensitivityEntry(discountRate, terminalGrowthRate, results) ==
    [discountRate |-> discountRate, terminalGrowthRate |-> terminalGrowthRate,
     intrinsicValue |-> results.intrinsicValue, upside |-> results.upside]

\* the inner loop, from the j-th terminal growth rate on; no try/catch surrounds
\* calculateDCF, so its exception leaves the loops before the fields are restored
RECURSIVE SensitivityRow(_, _, _, _, _, _, _)
SensitivityCell(this, fd, pr, discountRate, terminalGrowthRates, j, results, dcfResult) ==
    IF dcfResult.threw THEN Throw(dcfResult.value.message, dcfResult.this)
    ELSE SensitivityRow(
             WithRates(dcfResult.this, this.discountRate, this.terminalGrowthRate),
             fd, pr, discountRate, terminalGrowthRates, j + 1,
             Append(results,
                    SensitivityEntry(discountRate, terminalGrowthRates[j], dcfResult.value)))
SensitivityRow(this, fd, pr, discountRate, terminalGrowthRates, j, results) ==
    IF j > Len(terminalGrowthRates) THEN Return(results, this)
    ELSE SensitivityCell(this, fd, pr, discountRate, terminalGrowthRates, j, results,
             calculateDCF(WithRates(this, discountRate, terminalGrowthRates[j]), fd, pr))

\* the outer loop, from the i-th discount rate on
RECURSIVE SensitivityGrid(_, _, _, _, _, _, _)
SensitivityNextRow(fd, pr, discountRates, terminalGrowthRates, i, row) ==
    IF row.threw THEN row
    ELSE SensitivityGrid(row.this, fd, pr, discountRates, terminalGrowthRates, i + 1, row.value)
SensitivityGrid(this, fd, pr, discountRates, terminalGrowthRates, i, results) ==
    IF i > Len(discountRates) THEN Return(results, this)
    ELSE SensitivityNextRow(fd, pr, discountRates, terminalGrowthRates, i,
             SensitivityRow(this, fd, pr, discountRates[i], terminalGrowthRates, 1, results))

sensitivityAnalysis(this, fd, pr, sensitivityRanges) ==
    SensitivityGrid(this, fd, pr,
                    RangeOr(sensitivityRanges, "discountRates", DefaultDiscountRates),
                    RangeOr(sensitivityRanges, "terminalGrowthRates", DefaultTerminalGrowthRates),
                    1, <<>>)

(***************************************************************************)
(* DCFModel.monteCarloDCF                                                  *)
(***************************************************************************)
\* the k-th normalRandom call of a draw consumes uniforms 2k and 2k + 1 of its stream
NormalAt(stream, k, mean, std) ==
    normalRandom(mean, std, MathRandom(stream, 2 * k), MathRandom(stream, 2 * k + 1))

RECURSIVE RandomProjectionYears(_, _, _, _, _)
RandomProjectionYears(this, pr, stream, year, rp) ==
    IF year >= this.projectionYears THEN rp
    ELSE RandomProjectionYears(this, pr, stream, year + 1,
        [revenueGrowth |-> Append(rp.revenueGrowth,
             NormalAt(stream, 5 * year, Or(At(pr.revenueGrowth, year), 50), 20)),
         ebitdaMargin |-> Append(rp.ebitdaMargin,
             NormalAt(stream, 5 * year + 1, Or(At(pr.ebitdaMargin, year), 150), 30)),
         depreciation |-> Append(rp.depreciation,
             MathAbs(NormalAt(stream, 5 * year + 2, Or(At(pr.depreciation, year), 0), 10))),
         capex |-> Append(rp.capex,
             MathAbs(NormalAt(stream, 5 * year + 3, Or(At(pr.capex, year), 0), 10))),
         workingCapitalChange |-> Append(rp.workingCapitalChange,
             NormalAt(stream, 5 * year + 4, Or(At(pr.workingCapitalChange, year), 0), 5))])

generateRandomProjections(this, pr, stream) ==
    IF this.projectionYears >= 1 /\ MissingArray(pr)
    THEN Throw("Cannot read properties of undefined", this)
    ELSE Return(RandomProjectionYears(this, pr, stream, 0,
                    [revenueGrowth |-> <<>>, ebitdaMargin |-> <<>>, depreciation |-> <<>>,
                     capex |-> <<>>, workingCapitalChange |-> <<>>]), this)

\* the uniforms a draw has consumed when generateRandomProjections returns
UniformsOfProjections(this) == IF this.projectionYears >= 1 THEN 10 * this.projectionYears ELSE 0

\* lines 144-151: the instance fields as one draw overwrites them
DrawnRates(this, u1, u2) ==
    WithRates(this,
              MathMax(50, Add(this.discountRate, Mul(Sub(u1, 500), 40))),
              MathMax(0, MathMin(50, Add(this.terminalGrowthRate, Mul(Sub(u2, 500), 20)))))

DrawRates(this, stream) ==
    DrawnRates(this, MathRandom(stream, UniformsOfProjections(this)),
               MathRandom(stream, UniformsOfProjections(this) + 1))

MonteCarloSample(results) ==
    [intrinsicValue |-> results.intrinsicValue, upside |-> results.upside,
     presentValue |-> results.presentValue]

\* One draw of the simulation loop and the loop itself.  run: aborted (an exception left
\* the loop), the samples pushed, the instance, and what became of each draw so far:
\* "sampled", "skipped" (its exception was caught) or "escaped" (its exception left the
\* loop).
MonteCarloEvaluated(this, run, dcfResult) ==
    IF dcfResult.threw
    THEN [run EXCEPT !.this = WithRates(dcfResult.this, this.discountRate,
                                        this.terminalGrowthRate),
                     !.draws = Append(run.draws, "skipped")]
    ELSE [run EXCEPT !.this = WithRates(dcfResult.this, this.discountRate,
                                        this.terminalGrowthRate),
                     !.draws = Append(run.draws, "sampled"),
                     !.results = Append(run.results, MonteCarloSample(dcfResult.value))]
MonteCarloDraw(this, fd, pr, stream, run, randomProjections) ==
    IF randomProjections.threw
    THEN [run EXCEPT !.aborted = TRUE, !.this = randomProjections.this,
                     !.message = randomProjections.value.message,
                     !.draws = Append(run.draws, "escaped")]
    ELSE MonteCarloEvaluated(this, run,
             calculateDCF(DrawRates(this, stream), fd, randomProjections.value))

\* draws lo..hi of the loop, run being the run of the draws before lo; the draws are
\* made in order, the first half of lo..hi (whose run is bound to `first`) before the
\* second
RECURSIVE MonteCarloLoop(_, _, _, _, _, _)
MonteCarloLoop(fd, pr, streams, lo, hi, run) ==
    IF run.aborted \/ lo > hi THEN run
    ELSE IF lo = hi
    THEN MonteCarloDraw(run.this, fd, pr, streams[lo], run,
                        generateRandomProjections(run.this, pr, streams[lo]))
    ELSE CHOOSE out \in {MonteCarloLoop(fd, pr, streams, ((lo + hi) \div 2) + 1, hi, first) :
                         first \in {MonteCarloLoop(fd, pr, streams, lo, (lo + hi) \div 2,
                                                   run)}} : TRUE

MonteCarloRun(this, fd, pr, streams) ==
    MonteCarloLoop(fd, pr, streams, 1, Len(streams),
        [aborted |-> FALSE, message |-> "", this |-> this, results |-> <<>>, draws |-> <<>>])

IsPositive(v) == Gt(v, 0)
IsNumber(v) == ~IsNaN(v)

\* array.map(r => r.<field>)
MapField(results, field) == [i \in 1..Len(results) |-> results[i][field]]

\* the sum of xs[lo..hi] added to acc from left to right, the first half of lo..hi before
\* the second
RECURSIVE SumRange(_, _, _, _)
SumRange(xs, lo, hi, acc) ==
    IF lo > hi THEN acc
    ELSE IF lo = hi THEN Add(acc, xs[lo])
    ELSE CHOOSE out \in {SumRange(xs, ((lo + hi) \div 2) + 1, hi, first) :
                         first \in {SumRange(xs, lo, (lo + hi) \div 2, acc)}} : TRUE
SumOf(xs) == SumRange(xs, 1, Len(xs), 0)

\* Math.min(...xs) and Math.max(...xs)
RECURSIVE MinRange(_, _, _, _)
MinRange(xs, lo, hi, acc) ==
    IF lo > hi THEN acc
    ELSE IF lo = hi THEN MathMin(acc, xs[lo])
    ELSE CHOOSE out \in {MinRange(xs, ((lo + hi) \div 2) + 1, hi, first) :
                         first \in {MinRange(xs, lo, (lo + hi) \div 2, acc)}} : TRUE
MinOf(xs) == MinRange(xs, 1, Len(xs), PInf)
RECURSIVE MaxRange(_, _, _, _)
MaxRange(xs, lo, hi, acc) ==
    IF lo > hi THEN acc
    ELSE IF lo = hi THEN MathMax(acc, xs[lo])
    ELSE CHOOSE out \in {MaxRange(xs, ((lo + hi) \div 2) + 1, hi, first) :
                         first \in {MaxRange(xs, lo, (lo + hi) \div 2, acc)}} : TRUE
MaxOf(xs) == MaxRange(xs, 1, Len(xs), NInf)

\* x / n for a count n
Over(x, n) == Div(x, n * Scale)

StatsMean(xs) == Over(SumOf(xs), Len(xs))

\* a faulty variant: the slice keeps the last 100 samples
Last100(results) == SubSeq(results, IF Len(results) < 100 THEN 1 ELSE Len(results) - 99, Len(results))

First100(results) == SubSeq(results, 1, IF Len(results) < 100 THEN Len(results) ELSE 100)

\* lines 174-194: the object returned
MonteCarloObject(results, intrinsicValues, upsides) ==
    [simulations |-> Len(results),
     intrinsicValue |-> [mean |-> StatsMean(intrinsicValues),
                         min |-> MinOf(intrinsicValues),
                         max |-> MaxOf(intrinsicValues)],
     upside |-> [mean |-> StatsMean(upsides)],
     probabilityOfPositiveUpside |->
         Over(Len(SelectSeq(upsides, IsPositive)) * Scale, Len(upsides)),
     results |-> First100(results)]

\* The statistics library (simple-statistics) is not part of the repository: on an empty
\* array its reductions either throw or yield NaN, depending on the release installed;
\* rejectsEmpty is that choice.
MonteCarloStatistics(this, results, intrinsicValues, upsides, rejectsEmpty) ==
    IF rejectsEmpty /\ (intrinsicValues = <<>> \/ upsides = <<>>)
    THEN Throw("mean requires at least one data point", this)
    ELSE Return(MonteCarloObject(results, intrinsicValues, upsides), this)

MonteCarloSummary(run, rejectsEmpty) ==
    IF run.aborted THEN Throw(run.message, run.this)
    ELSE MonteCarloStatistics(run.this, run.results,
             SelectSeq(MapField(run.results, "intrinsicValue"), IsPositive),
             SelectSeq(MapField(run.results, "upside"), IsNumber), rejectsEmpty)

monteCarloDCF(this, fd, pr, streams, rejectsEmpty) ==
    MonteCarloSummary(MonteCarloRun(this, fd, pr, streams), rejectsEmpty)

(***************************************************************************)
(* LBOModel.calculateIRR: Newton-Raphson on the net present value          *)
(***************************************************************************)
maxIterations == 1000
\* 1e-6, raised to the smallest positive number of the fixed-point representation
tolerance == 1

\* lines 178-179: [-initialInvestment, ...cashFlows] with terminalValue added to the last
AllCashFlows(initialInvestment, cashFlows, terminalValue) ==
    IF cashFlows = <<>> THEN <<Add(Neg(initialInvestment), terminalValue)>>
    ELSE <<Neg(initialInvestment)>> \o SubSeq(cashFlows, 1, Len(cashFlows) - 1)
         \o <<Add(cashFlows[Len(cashFlows)], terminalValue)>>

\* lines 190-194: npv and npvDerivative after the terms 0..i
RECURSIVE NPV(_, _, _)
NPV(allCashFlows, rate, i) ==
    IF i < 0 THEN 0
    ELSE CHOOSE npv \in {Add(sum, Div(At(allCashFlows, i), denominator)) :
                            sum \in {NPV(allCashFlows, rate, i - 1)},
                            denominator \in {MathPow(Add(Scale, rate), i)}} : TRUE

RECURSIVE NPVDerivative(_, _, _)
NPVDerivative(allCashFlows, rate, i) ==
    IF i < 0 THEN 0
    ELSE CHOOSE npvDerivative \in
             {Sub(sum, Div(Times(i, At(allCashFlows, i)), denominator)) :
                  sum \in {NPVDerivative(allCashFlows, rate, i - 1)},
                  denominator \in {MathPow(Add(Scale, rate), i + 1)}} : TRUE

\* a faulty variant of line 196: the net present value is compared without Math.abs
IRRDecideSigned(solver, npv, npvDerivative) ==
    IF Lt(npv, tolerance)
    THEN [solver EXCEPT !.at = "converged", !.npv = npv, !.npvDerivative = npvDerivative]
    ELSE IF Lt(MathAbs(npvDerivative), tolerance)
    THEN [solver EXCEPT !.at = "flat", !.npv = npv, !.npvDerivative = npvDerivative]
    ELSE [solver EXCEPT !.rate = Sub(solver.rate, Div(npv, npvDerivative)),
                        !.iteration = solver.iteration + 1,
                        !.npv = npv, !.npvDerivative = npvDerivative]

\* a faulty variant of lines 196-200: the derivative is tested before the convergence
IRRDecideDerivativeFirst(solver, npv, npvDerivative) ==
    IF Lt(MathAbs(npvDerivative), tolerance)
    THEN [solver EXCEPT !.at = "flat", !.npv = npv, !.npvDerivative = npvDerivative]
    ELSE IF Lt(MathAbs(npv), tolerance)
    THEN [solver EXCEPT !.at = "converged", !.npv = npv, !.npvDerivative = npvDerivative]
    ELSE [solver EXCEPT !.rate = Sub(solver.rate, Div(npv, npvDerivative)),
                        !.iteration = solver.iteration + 1,
                        !.npv = npv, !.npvDerivative = npvDerivative]

\* lines 196-203: the rest of one pass of the while loop, npv and npvDerivative computed
IRRDecide(solver, npv, npvDerivative) ==
    IF Lt(MathAbs(npv), tolerance)
    THEN [solver EXCEPT !.at = "converged", !.npv = npv, !.npvDerivative = npvDerivative]
    ELSE IF Lt(MathAbs(npvDerivative), tolerance)
    THEN [solver EXCEPT !.at = "flat", !.npv = npv, !.npvDerivative = npvDerivative]
    ELSE [solver EXCEPT !.rate = Sub(solver.rate, Div(npv, npvDerivative)),
                        !.iteration = solver.iteration + 1,
                        !.npv = npv, !.npvDerivative = npvDerivative]

\* the solver when the loop is entered: rate, iteration, where control is ("loop", or
\* how the loop was left), and the npv and npvDerivative of the latest pass
IRRStart ==
    [rate |-> 150, iteration |-> 0, at |-> "loop", npv |-> NaN, npvDerivative |-> NaN,
     period |-> 0]

\* the while condition
IRRLooping(solver) == solver.at = "loop" /\ solver.iteration < maxIterations

\* one pass of the while loop; a solver that has left the loop stays as it is
IRRPass(allCashFlows, solver) ==
    IF ~IRRLooping(solver) THEN solver
    ELSE CHOOSE passed \in
             {IRRDecide(solver, npv, npvDerivative) :
                  npv \in {NPV(allCashFlows, solver.rate, Len(allCashFlows) - 1)},
                  npvDerivative \in
                      {NPVDerivative(allCashFlows, solver.rate, Len(allCashFlows) - 1)}} : TRUE

\* The while loop run for n passes, or until it is left.  npv and npvDerivative depend
\* on the rate alone, so once the rate after some passes is the rate before them, the
\* passes repeat for as long as the loop runs.  period records that: a number of passes
\* after which the solver is known to be where it is now, 0 while none is known.  With a
\* period known, `rest` more passes leave the solver where rest % period more passes
\* leave it, `rest` iterations on.
RECURSIVE IRRPasses(_, _, _)
IRRRepeat(allCashFlows, half, rest) ==
    [IRRPasses(allCashFlows, half, rest % half.period)
        EXCEPT !.iteration = half.iteration + rest]
IRRRest(allCashFlows, solver, half, done, rest) ==
    IF ~IRRLooping(half) THEN half
    ELSE IF half.period > 0 THEN IRRRepeat(allCashFlows, half, rest)
    ELSE IF half.rate = solver.rate
    THEN IRRRepeat(allCashFlows, [half EXCEPT !.period = done], rest)
    ELSE IRRPasses(allCashFlows, half, rest)
IRRPasses(allCashFlows, solver, n) ==
    IF n = 0 THEN solver
    ELSE IF n = 1 THEN IRRPass(allCashFlows, solver)
    ELSE CHOOSE passed \in {IRRRest(allCashFlows, solver, half, n \div 2, n - (n \div 2)) :
                             half \in {IRRPasses(allCashFlows, solver, n \div 2)}} : TRUE

\* a faulty variant: lines 206-208 are missing, the rate is returned when the cap is hit
IRRCompletionAtCap(solver) ==
    IF solver.at = "flat" THEN Throw("IRR calculation failed: derivative too small", solver)
    ELSE Return(solver.rate, solver)

\* lines 198-200 and 206-210: how calculateIRR completes once the loop is left
IRRCompletion(solver) ==
    IF solver.at = "flat" THEN Throw("IRR calculation failed: derivative too small", solver)
    ELSE IF solver.iteration >= maxIterations
    THEN Throw("IRR calculation failed: maximum iterations reached", solver)
    ELSE Return(solver.rate, solver)

\* lines 181-210 on the stream built by lines 178-179
IRRSolve(allCashFlows) ==
    IRRCompletion(IRRPasses(allCashFlows, IRRStart, maxIterations))

\* the stream is built once, before the loop
calculateIRR(initialInvestment, cashFlows, terminalValue) ==
    CHOOSE out \in {IRRSolve(allCashFlows) :
                      allCashFlows \in {AllCashFlows(initialInvestment, cashFlows,
                                                      terminalValue)}} : TRUE

(***************************************************************************)
(* LBOModel.  dealParams holds its scalar fields as numbers, NaN standing  *)
(* for a field that is undefined; an array field that is undefined is      *)
(* absent from the record.                                                 *)
(***************************************************************************)
\* new LBOModel(options): an option that is left out is undefined, NaN here, which `||`
\* replaces as it replaces 0
LBOModel(options) ==
    [targetIRR             |-> Or(options.targetIRR, 200),
     holdPeriod            |-> Or(options.holdPeriod, 5),
     maxDebtMultiple       |-> Or(options.maxDebtMultiple, 6000),
     minEquityContribution |-> Or(options.minEquityContribution, 300)]

DealArrays == {"revenueGrowth", "ebitdaMargin", "capexAsPercentOfRevenue", "workingCapitalChange"}

\* the error a catch block rethrows: its own message and the message of the cause
Rethrow(msg, error, this) ==
    [threw |-> TRUE, value |-> [message |-> msg, cause |-> error.message], this |-> this]

\* line 46
LBOTotalDebt(dp) ==
    Add(Add(Add(Or(dp.revolver, 0), Or(dp.termLoanA, 0)), Or(dp.termLoanB, 0)),
        Or(dp.subordinatedDebt, 0))

\* line 47
LBOEquityContribution(dp) == Add(Sub(dp.enterpriseValue, LBOTotalDebt(dp)), Or(dp.fees, 0))

\* a faulty variant of lines 49-64: the fees are left out of the uses
LBOSourceAndUsesWithoutFees(dp, totalDebt, equityContribution) ==
    [sources |-> [revolver |-> Or(dp.revolver, 0), termLoanA |-> Or(dp.termLoanA, 0),
                  termLoanB |-> Or(dp.termLoanB, 0),
                  subordinatedDebt |-> Or(dp.subordinatedDebt, 0),
                  totalDebt |-> totalDebt, equityContribution |-> equityContribution,
                  totalSources |-> Add(totalDebt, equityContribution)],
     uses |-> [enterpriseValue |-> dp.enterpriseValue, fees |-> 0,
               totalUses |-> dp.enterpriseValue]]

\* lines 49-64
LBOSourceAndUses(dp, totalDebt, equityContribution) ==
    [sources |-> [revolver |-> Or(dp.revolver, 0), termLoanA |-> Or(dp.termLoanA, 0),
                  termLoanB |-> Or(dp.termLoanB, 0),
                  subordinatedDebt |-> Or(dp.subordinatedDebt, 0),
                  totalDebt |-> totalDebt, equityContribution |-> equityContribution,
                  totalSources |-> Add(totalDebt, equityContribution)],
     uses |-> [enterpriseValue |-> dp.enterpriseValue, fees |-> Or(dp.fees, 0),
               totalUses |-> Add(dp.enterpriseValue, Or(dp.fees, 0))]]

\* line 67
LBOCurrentRevenue(dp) ==
    Or(dp.baseRevenue, Div(dp.ebitda, Or(At(dp.ebitdaMargin, 0), 200)))

\* lines 161-168; dealParams.interestRates || {} is a record whose fields may be NaN
calculateInterestExpense(totalDebt, interestRates) ==
    Mul(totalDebt,
        Or(interestRates.weighted,
           Or(Add(Add(Mul(interestRates.termLoanA, 300), Mul(interestRates.termLoanB, 500)),
                  Mul(interestRates.subordinated, 200)),
              80)))

\* a faulty variant of line 71: the growth of the year is applied once, not compounded
LBORevenueUncompounded(dp, year, currentRevenue) ==
    IF year = 0 THEN currentRevenue
    ELSE Mul(currentRevenue, Add(Scale, At(dp.revenueGrowth, year - 1)))

\* line 71
LBORevenue(dp, year, currentRevenue) ==
    IF year = 0 THEN currentRevenue
    ELSE Mul(currentRevenue, MathPow(Add(Scale, At(dp.revenueGrowth, year - 1)), year))
\* line 72
LBOEbitda(dp, year, revenue) ==
    Mul(revenue, Or(At(dp.ebitdaMargin, year), At(dp.ebitdaMargin, 0)))
\* line 73
LBOCapex(dp, year, revenue) == Mul(revenue, Or(At(dp.capexAsPercentOfRevenue, year), 30))
\* lines 77-79
LBONetIncome(dp, ebt) == Sub(ebt, MathMax(0, Mul(ebt, Or(dp.taxRate, 250))))
\* line 81, depreciation being capex
LBOFreeCashFlow(dp, year, netIncome, capex) ==
    Sub(Sub(Add(netIncome, capex), capex), Or(At(dp.workingCapitalChange, year), 0))
\* a faulty variant of line 82: the paydown is not floored at 0
LBODebtPaydownUnfloored(dp, freeCashFlow) == Mul(freeCashFlow, Or(dp.debtPaydownRate, 500))

\* line 82
LBODebtPaydown(dp, freeCashFlow) ==
    MathMax(0, Mul(freeCashFlow, Or(dp.debtPaydownRate, 500)))

\* a faulty variant of line 95: the record reports the whole free cash flow as paid down
LBOYearRecordSwept(year, revenue, ebitdaAmount, ebit, interest, netIncome, freeCashFlow, debtPaydown, debtBalance) ==
    [year |-> year, revenue |-> revenue, ebitda |-> ebitdaAmount, ebit |-> ebit,
     netIncome |-> netIncome, freeCashFlow |-> freeCashFlow, debtBalance |-> debtBalance,
     debtPaydown |-> freeCashFlow, cashToSponsor |-> Sub(freeCashFlow, debtPaydown),
     creditMetrics |-> [debtToEbitda |-> Div(debtBalance, ebitdaAmount),
                        ebitdaToInterest |-> Div(ebitdaAmount, interest),
                        fcfToDebt |-> Div(freeCashFlow, debtBalance)]]

\* lines 83-102: the record pushed for one year, currentDebt being the balance before it
LBOYearRecord(year, revenue, ebitdaAmount, ebit, interest, netIncome, freeCashFlow, debtPaydown, debtBalance) ==
    [year |-> year, revenue |-> revenue, ebitda |-> ebitdaAmount, ebit |-> ebit,
     netIncome |-> netIncome, freeCashFlow |-> freeCashFlow, debtBalance |-> debtBalance,
     debtPaydown |-> debtPaydown, cashToSponsor |-> Sub(freeCashFlow, debtPaydown),
     creditMetrics |-> [debtToEbitda |-> Div(debtBalance, ebitdaAmount),
                        ebitdaToInterest |-> Div(ebitdaAmount, interest),
                        fcfToDebt |-> Div(freeCashFlow, debtBalance)]]

\* line 85
LBOYearPaid(year, revenue, ebitdaAmount, ebit, interest, netIncome, freeCashFlow, debtPaydown, currentDebt) ==
    LBOYearRecord(year, revenue, ebitdaAmount, ebit, interest, netIncome, freeCashFlow,
                  debtPaydown, MathMax(0, Sub(currentDebt, debtPaydown)))

LBOYearOfCashFlow(dp, year, revenue, ebitdaAmount, ebit, interest, netIncome, freeCashFlow, currentDebt) ==
    LBOYearPaid(year, revenue, ebitdaAmount, ebit, interest, netIncome, freeCashFlow,
                LBODebtPaydown(dp, freeCashFlow), currentDebt)

LBOYearOfIncome(dp, year, revenue, ebitdaAmount, capex, ebit, interest, netIncome, currentDebt) ==
    LBOYearOfCashFlow(dp, year, revenue, ebitdaAmount, ebit, interest, netIncome,
                      LBOFreeCashFlow(dp, year, netIncome, capex), currentDebt)

LBOYearOfEbit(dp, year, revenue, ebitdaAmount, capex, ebit, interest, currentDebt) ==
    LBOYearOfIncome(dp, year, revenue, ebitdaAmount, capex, ebit, interest,
                    LBONetIncome(dp, Sub(ebit, interest)), currentDebt)

LBOYearOfEbitda(this, dp, year, revenue, ebitdaAmount, capex, currentDebt) ==
    LBOYearOfEbit(dp, year, revenue, ebitdaAmount, capex, Sub(ebitdaAmount, capex),
                  calculateInterestExpense(currentDebt, dp.interestRates), currentDebt)

LBOYearOfRevenue(this, dp, year, revenue, currentDebt) ==
    LBOYearOfEbitda(this, dp, year, revenue, LBOEbitda(dp, year, revenue),
                    LBOCapex(dp, year, revenue), currentDebt)

\* one pass of the loop body of calculateLBO, year = 0..holdPeriod
LBOYear(this, dp, year, currentRevenue, currentDebt) ==
    LBOYearOfRevenue(this, dp, year, LBORevenue(dp, year, currentRevenue), currentDebt)

RECURSIVE LBOLoop(_, _, _, _, _, _)
LBOPush(this, dp, year, currentRevenue, rec, projected) ==
    LBOLoop(this, dp, year + 1, currentRevenue, rec.debtBalance, Append(projected, rec))
LBOLoop(this, dp, year, currentRevenue, currentDebt, projected) ==
    IF year > this.holdPeriod THEN projected
    ELSE LBOPush(this, dp, year, currentRevenue,
                 LBOYear(this, dp, year, currentRevenue, currentDebt), projected)

\* the statements of calculateLBO that can raise a TypeError: an array that is undefined
\* is indexed in year 0 or 1, and projections[holdPeriod] is undefined when the loop
\* body never ran
LBOTypeError(this, dp) ==
    \/ \E f \in DealArrays : f \notin DOMAIN dp
    \/ this.holdPeriod < 0

\* lines 106-109
LBOExitEquityValue(this, dp, projected) ==
    Sub(Mul(projected[this.holdPeriod + 1].ebitda, dp.exitMultiple),
        projected[this.holdPeriod + 1].debtBalance)

\* results.projections.slice(1)
Slice1(projected) == SubSeq(projected, 2, Len(projected))

\* lines 112-126
LBOReturns(this, dp, projected, equityContribution, exitEquityValue, totalCashDistributed, irr) ==
    [entryEquity |-> equityContribution,
     exitEquityValue |-> exitEquityValue,
     totalCashDistributed |-> totalCashDistributed,
     totalCashReturned |-> Add(totalCashDistributed, exitEquityValue),
     totalMultiple |-> Div(Add(totalCashDistributed, exitEquityValue), equityContribution),
     irr |-> irr,
     exitMultiple |-> dp.exitMultiple,
     exitEbitda |-> projected[this.holdPeriod + 1].ebitda]

\* lines 129-138
LBOCreditMetrics(dp, totalDebt, exitDebt, maxDebtToEbitda, minEbitdaToInterest) ==
    [entryDebtToEbitda |-> Div(totalDebt, dp.ebitda),
     maxDebtToEbitda |-> maxDebtToEbitda,
     minEbitdaToInterest |-> minEbitdaToInterest,
     debtPaydownOverHoldPeriod |-> Sub(totalDebt, exitDebt),
     debtPaydownPercent |-> Div(Sub(totalDebt, exitDebt), totalDebt)]

\* a faulty variant of lines 141-146: the tests are made against the defaults of the
\* constructor, whatever the instance is configured with
LBOKeyMetricsOfDefaults(this, dp, equityContribution, irr, maxDebtToEbitda) ==
    [meetsTaxgetIRR |-> Ge(irr, 200),
     leverageWithinLimits |-> Le(maxDebtToEbitda, 6000),
     adequateEquityBuffer |-> Ge(Div(equityContribution, dp.enterpriseValue), 300),
     riskAdjustedReturn |-> Div(irr, Div(maxDebtToEbitda, 6000))]

\* lines 141-146
LBOKeyMetrics(this, dp, equityContribution, irr, maxDebtToEbitda) ==
    [meetsTaxgetIRR |-> Ge(irr, this.targetIRR),
     leverageWithinLimits |-> Le(maxDebtToEbitda, this.maxDebtMultiple),
     adequateEquityBuffer |->
         Ge(Div(equityContribution, dp.enterpriseValue), this.minEquityContribution),
     riskAdjustedReturn |-> Div(irr, Div(maxDebtToEbitda, 6000))]

MapCreditMetric(projected, field) ==
    [i \in 1..Len(projected) |-> projected[i].creditMetrics[field]]

\* a faulty variant of line 112: the cash of year 0 is counted as distributed
LBOResultsFromYear0(this, dp, projected, totalDebt, equityContribution, exitEquityValue, irr, maxDebtToEbitda) ==
    [sourceAndUses |-> LBOSourceAndUses(dp, totalDebt, equityContribution),
     returns |-> LBOReturns(this, dp, projected, equityContribution, exitEquityValue,
                            SumOf(MapField(projected, "cashToSponsor")), irr),
     creditMetrics |-> LBOCreditMetrics(dp, totalDebt,
                           projected[this.holdPeriod + 1].debtBalance, maxDebtToEbitda,
                           MinOf(MapCreditMetric(projected, "ebitdaToInterest"))),
     projections |-> projected,
     keyMetrics |-> LBOKeyMetrics(this, dp, equityContribution, irr, maxDebtToEbitda)]

\* lines 112-146
LBOResults(this, dp, projected, totalDebt, equityContribution, exitEquityValue, irr, maxDebtToEbitda) ==
    [sourceAndUses |-> LBOSourceAndUses(dp, totalDebt, equityContribution),
     returns |-> LBOReturns(this, dp, projected, equityContribution, exitEquityValue,
                            SumOf(MapField(Slice1(projected), "cashToSponsor")), irr),
     creditMetrics |-> LBOCreditMetrics(dp, totalDebt,
                           projected[this.holdPeriod + 1].debtBalance, maxDebtToEbitda,
                           MinOf(MapCreditMetric(projected, "ebitdaToInterest"))),
     projections |-> projected,
     keyMetrics |-> LBOKeyMetrics(this, dp, equityContribution, irr, maxDebtToEbitda)]

\* a faulty variant: a failure of the root finder is swallowed, irr is left undefined
LBOSolvedDefaulting(this, dp, projected, equityContribution, exitEquityValue, irr) ==
    Return(LBOResults(this, dp, projected, LBOTotalDebt(dp), equityContribution,
                      exitEquityValue, IF irr.threw THEN NaN ELSE irr.value,
                      MaxOf(MapCreditMetric(projected, "debtToEbitda"))), this)

\* line 115 on: the root finder has completed, by a rate or by an error
LBOSolved(this, dp, projected, equityContribution, exitEquityValue, irr) ==
    IF irr.threw THEN Rethrow("LBO calculation failed", irr.value, this)
    ELSE Return(LBOResults(this, dp, projected, LBOTotalDebt(dp), equityContribution,
                           exitEquityValue, irr.value,
                           MaxOf(MapCreditMetric(projected, "debtToEbitda"))), this)

LBOExit(this, dp, projected, equityContribution, exitEquityValue) ==
    CHOOSE out \in {LBOSolved(this, dp, projected, equityContribution, exitEquityValue, irr) :
                      irr \in {calculateIRR(equityContribution,
                                             MapField(Slice1(projected), "cashToSponsor"),
                                             exitEquityValue)}} : TRUE

LBOProjected(this, dp, projected) ==
    LBOExit(this, dp, projected, LBOEquityContribution(dp),
            LBOExitEquityValue(this, dp, projected))

\* the loop has run once when the exit analysis reads its records
calculateLBO(this, dp) ==
    IF LBOTypeError(this, dp)
    THEN Rethrow("LBO calculation failed",
                 [message |-> "Cannot read properties of undefined"], this)
    ELSE CHOOSE out \in {LBOProjected(this, dp, projected) :
                           projected \in {LBOLoop(this, dp, 0, LBOCurrentRevenue(dp),
                                                   LBOTotalDebt(dp), <<>>)}} : TRUE

(***************************************************************************)
(* LBOModel.monteCarioLBO                                                  *)
(***************************************************************************)
\* { ...rec, field: value }
With(rec, field, value) ==
    [f \in DOMAIN rec \cup {field} |-> IF f = field THEN value ELSE rec[f]]

\* distributions is null, or an object holding { mean, std } under some of these keys
Null == [null |-> TRUE]
Drawn(distributions, key) == key \in DOMAIN distributions

\* Array(n).fill(null).map(() => this.normalRandom(mean, std)), the first call of it
\* being the k-th normalRandom call of the draw
RandomArray(stream, k, n, distribution) ==
    [i \in 1..n |-> NormalAt(stream, k + i - 1, distribution.mean, distribution.std)]

\* lines 312-317
RandomExitMultiple(baseParams, distributions, stream) ==
    IF Drawn(distributions, "exitMultiple")
    THEN With(baseParams, "exitMultiple",
              NormalAt(stream, 0, distributions.exitMultiple.mean,
                       distributions.exitMultiple.std))
    ELSE baseParams

\* the normalRandom calls made before the revenue growth and before the margins
CallsBeforeGrowth(distributions) == IF Drawn(distributions, "exitMultiple") THEN 1 ELSE 0
CallsBeforeMargin(this, distributions) ==
    CallsBeforeGrowth(distributions)
    + (IF Drawn(distributions, "revenueGrowth") THEN this.holdPeriod ELSE 0)

\* lines 320-327
RandomRevenueGrowth(this, randomParams, distributions, stream) ==
    IF Drawn(distributions, "revenueGrowth")
    THEN With(randomParams, "revenueGrowth",
              RandomArray(stream, CallsBeforeGrowth(distributions), this.holdPeriod,
                          distributions.revenueGrowth))
    ELSE randomParams

\* lines 330-337
RandomEbitdaMargin(this, randomParams, distributions, stream) ==
    IF Drawn(distributions, "ebitdaMargin")
    THEN With(randomParams, "ebitdaMargin",
              RandomArray(stream, CallsBeforeMargin(this, distributions),
                          this.holdPeriod + 1, distributions.ebitdaMargin))
    ELSE randomParams

\* Array(n) with n < 0 is a RangeError
LBORangeError(this, distributions) ==
    \/ Drawn(distributions, "revenueGrowth") /\ this.holdPeriod < 0
    \/ Drawn(distributions, "ebitdaMargin") /\ this.holdPeriod + 1 < 0

generateRandomLBOParams(this, baseParams, distributions, stream) ==
    IF distributions = Null THEN Throw("Cannot read properties of null", this)
    ELSE IF LBORangeError(this, distributions) THEN Throw("Invalid array length", this)
    ELSE Return(RandomEbitdaMargin(this,
                    RandomRevenueGrowth(this,
                        RandomExitMultiple(baseParams, distributions, stream),
                        distributions, stream),
                    distributions, stream), this)

\* lines 266-271
LBOMonteCarloSample(results) ==
    [irr |-> results.returns.irr, totalMultiple |-> results.returns.totalMultiple,
     maxLeverage |-> results.creditMetrics.maxDebtToEbitda,
     exitEquityValue |-> results.returns.exitEquityValue]

\* One draw of the simulation loop and the loop itself; the whole draw is inside the try
\* block.  run is as in monteCarloDCF.
\* a faulty variant: the catch block pushes a sample of NaN values for the failed draw
LBOMonteCarloSkippedPushing(run) ==
    [run EXCEPT !.draws = Append(run.draws, "skipped"),
                !.results = Append(run.results,
                                   [irr |-> NaN, totalMultiple |-> NaN, maxLeverage |-> NaN,
                                    exitEquityValue |-> NaN])]
LBOMonteCarloSkipped(run) == [run EXCEPT !.draws = Append(run.draws, "skipped")]
LBOMonteCarloEvaluated(run, lboResult) ==
    IF lboResult.threw THEN LBOMonteCarloSkipped([run EXCEPT !.this = lboResult.this])
    ELSE [run EXCEPT !.this = lboResult.this,
                     !.draws = Append(run.draws, "sampled"),
                     !.results = Append(run.results, LBOMonteCarloSample(lboResult.value))]
LBOMonteCarloDraw(this, run, randomParams) ==
    IF randomParams.threw THEN LBOMonteCarloSkipped([run EXCEPT !.this = randomParams.this])
    ELSE LBOMonteCarloEvaluated(run, calculateLBO(this, randomParams.value))

\* draws lo..hi of the loop, run being the run of the draws before lo
RECURSIVE LBOMonteCarloLoop(_, _, _, _, _, _)
LBOMonteCarloLoop(dp, distributions, streams, lo, hi, run) ==
    IF lo > hi THEN run
    ELSE IF lo = hi
    THEN LBOMonteCarloDraw(run.this, run,
                           generateRandomLBOParams(run.this, dp, distributions, streams[lo]))
    ELSE CHOOSE out \in {LBOMonteCarloLoop(dp, distributions, streams, ((lo + hi) \div 2) + 1,
                                           hi, first) :
                         first \in {LBOMonteCarloLoop(dp, distributions, streams, lo,
                                                      (lo + hi) \div 2, run)}} : TRUE

LBOMonteCarloRun(this, dp, distributions, streams) ==
    LBOMonteCarloLoop(dp, distributions, streams, 1, Len(streams),
        [aborted |-> FALSE, message |-> "", this |-> this, results |-> <<>>, draws |-> <<>>])

\* irrs.filter(irr => irr >= this.targetIRR).length
CountTargetIRR(this, irrs) == Cardinality({i \in 1..Len(irrs) : Ge(irrs[i], this.targetIRR)})

\* lines 282-305: the object returned (of each statistic the mean stands for the rest)
LBOMonteCarloObject(this, results, irrs, multiples, leverages) ==
    [simulations |-> Len(results),
     irr |-> [mean |-> StatsMean(irrs)],
     multiple |-> [mean |-> StatsMean(multiples)],
     maxLeverage |-> [mean |-> StatsMean(leverages)],
     probabilityOfTargetIRR |-> Over(CountTargetIRR(this, irrs) * Scale, Len(irrs)),
     results |-> First100(results)]

LBOMonteCarloStatistics(this, results, irrs, multiples, leverages, rejectsEmpty) ==
    IF rejectsEmpty /\ (irrs = <<>> \/ multiples = <<>> \/ leverages = <<>>)
    THEN Throw("mean requires at least one data point", this)
    ELSE Return(LBOMonteCarloObject(this, results, irrs, multiples, leverages), this)

LBOMonteCarloSummary(run, rejectsEmpty) ==
    LBOMonteCarloStatistics(run.this, run.results,
        SelectSeq(MapField(run.results, "irr"), IsNumber),
        SelectSeq(MapField(run.results, "totalMultiple"), IsNumber),
        SelectSeq(MapField(run.results, "maxLeverage"), IsNumber), rejectsEmpty)

monteCarioLBO(this, dp, distributions, streams, rejectsEmpty) ==
    LBOMonteCarloSummary(LBOMonteCarloRun(this, dp, distributions, streams), rejectsEmpty)

(***************************************************************************)
(* LBOModel.sensitivityAnalysis                                            *)
(***************************************************************************)
DefaultExitMultiples == <<8000, 9000, 10000, 11000, 12000>>
DefaultRevenueGrowthRates == <<30, 50, 70, 90, 110>>

\* a faulty variant of lines 227-231: the copy keeps the revenue growth of the deal
LBOModifiedParamsKeepingGrowth(this, dp, exitMultiple, revenueGrowth) ==
    IF this.holdPeriod < 0 THEN Throw("Invalid array length", this)
    ELSE Return(With(dp, "exitMultiple", exitMultiple), this)

\* lines 227-231, before the try block: Array(n) with n < 0 is a RangeError
LBOModifiedParams(this, dp, exitMultiple, revenueGrowth) ==
    IF this.holdPeriod < 0 THEN Throw("Invalid array length", this)
    ELSE Return(With(With(dp, "exitMultiple", exitMultiple), "revenueGrowth",
                     [k \in 1..this.holdPeriod |-> revenueGrowth]), this)

\* lines 235-241
LBOSensitivityEntry(exitMultiple, revenueGrowth, results) ==
    [exitMultiple |-> exitMultiple, revenueGrowth |-> revenueGrowth,
     irr |-> results.returns.irr, totalMultiple |-> results.returns.totalMultiple,
     maxLeverage |-> results.creditMetrics.maxDebtToEbitda]

\* lines 233-244: the try block and its catch
LBOSensitivityTried(results, exitMultiple, revenueGrowth, lboResult) ==
    IF lboResult.threw THEN results
    ELSE Append(results, LBOSensitivityEntry(exitMultiple, revenueGrowth, lboResult.value))

\* the inner loop, from the j-th revenue growth rate on
RECURSIVE LBOSensitivityRow(_, _, _, _, _, _)
LBOSensitivityCell(this, dp, exitMultiple, revenueGrowthRates, j, results, modifiedParams) ==
    IF modifiedParams.threw THEN modifiedParams
    ELSE LBOSensitivityRow(this, dp, exitMultiple, revenueGrowthRates, j + 1,
             LBOSensitivityTried(results, exitMultiple, revenueGrowthRates[j],
                                 calculateLBO(this, modifiedParams.value)))
LBOSensitivityRow(this, dp, exitMultiple, revenueGrowthRates, j, results) ==
    IF j > Len(revenueGrowthRates) THEN Return(results, this)
    ELSE LBOSensitivityCell(this, dp, exitMultiple, revenueGrowthRates, j, results,
             LBOModifiedParams(this, dp, exitMultiple, revenueGrowthRates[j]))

\* the outer loop, from the i-th exit multiple on
RECURSIVE LBOSensitivityGrid(_, _, _, _, _, _)
LBOSensitivityNextRow(this, dp, exitMultiples, revenueGrowthRates, i, row) ==
    IF row.threw THEN row
    ELSE LBOSensitivityGrid(this, dp, exitMultiples, revenueGrowthRates, i + 1, row.value)
LBOSensitivityGrid(this, dp, exitMultiples, revenueGrowthRates, i, results) ==
    IF i > Len(exitMultiples) THEN Return(results, this)
    ELSE LBOSensitivityNextRow(this, dp, exitMultiples, revenueGrowthRates, i,
             LBOSensitivityRow(this, dp, exitMultiples[i], revenueGrowthRates, 1, results))

lboSensitivityAnalysis(this, dp, sensitivityRanges) ==
    LBOSensitivityGrid(this, dp,
                       RangeOr(sensitivityRanges, "exitMultiples", DefaultExitMultiples),
                       RangeOr(sensitivityRanges, "revenueGrowthRates",
                               DefaultRevenueGrowthRates),
                       1, <<>>)

(***************************************************************************)
(* The engines as a state machine.  A caller holds one engine instance, a  *)
(* DCFModel with its financialData and projections or an LBOModel with its *)
(* dealParams, and makes one call at a time, in any order; `call` holds    *)
(* the arguments and the outcome of a call until the caller has taken it.  *)
(***************************************************************************)
MaxSimulations == 2
MaxGrid == 2

Idle == [op |-> "idle"]
None == [none |-> TRUE]

\* the prefixes of list of length at most n
Prefixes(list, n) == {SubSeq(list, 1, k) : k \in 0..(IF n < Len(list) THEN n ELSE Len(list))}

DCFOptions ==
    [discountRate : {0, 30}, terminalGrowthRate : {0, 30, 45},
     projectionYears : {-1, 2}, taxRate : {300}]
    \cup {[discountRate |-> 0, terminalGrowthRate |-> 0, projectionYears |-> 0, taxRate |-> 0]}

\* the inputs of the repository's analytics test, in tenths
TestFinancialData == [revenue |-> 100000, sharesOutstanding |-> 10000, currentPrice |-> 15000]
TestProjections ==
    [revenueGrowth |-> <<50, 40, 30, 30, 20>>, ebitdaMargin |-> <<200, 210, 220, 220, 230>>,
     depreciation |-> <<3000, 3200, 3400, 3600, 3800>>,
     capex |-> <<4000, 3800, 3600, 3400, 3200>>,
     workingCapitalChange |-> <<500, 300, 200, 100, 0>>]

FinancialDataSet ==
    { TestFinancialData,
      [revenue |-> 100000, sharesOutstanding |-> 0, currentPrice |-> 15000],
      [revenue |-> 100000, sharesOutstanding |-> -10000, currentPrice |-> 0] }

ProjectionsSet ==
    { TestProjections,
      [revenueGrowth |-> <<0, -100>>, ebitdaMargin |-> <<0, 100>>,
       depreciation |-> <<0, 0>>, capex |-> <<0, 2000>>,
       workingCapitalChange |-> <<0>>],
      [revenueGrowth |-> <<50, 50>>, ebitdaMargin |-> <<-200, -200>>,
       depreciation |-> <<3000, 3000>>, capex |-> <<4000, 4000>>,
       workingCapitalChange |-> <<0, 0>>],
      [ebitdaMargin |-> <<200, 210>>, depreciation |-> <<3000, 3200>>,
       capex |-> <<4000, 3800>>, workingCapitalChange |-> <<500, 300>>] }

SensitivityRangesSet ==
    LET Ds == Prefixes(<<100, 30, 80, 20>>, MaxGrid)
        Ts == Prefixes(<<20, 30, 25, 100>>, MaxGrid)
    IN  {<<>>} \cup {[discountRates |-> d, terminalGrowthRates |-> t] : d \in Ds, t \in Ts}

LBOOptions ==
    [targetIRR : {0, 300}, holdPeriod : {-1, 0, 2}, maxDebtMultiple : {0, 5000},
     minEquityContribution : {0, 500}]

NoInterestRates == [weighted |-> NaN, termLoanA |-> NaN, termLoanB |-> NaN, subordinated |-> NaN]

\* the deal of the repository's analytics test, in tenths
TestDeal ==
    [enterpriseValue |-> 100000, ebitda |-> 10000, revolver |-> 5000, termLoanA |-> 20000,
     termLoanB |-> 30000, subordinatedDebt |-> NaN, exitMultiple |-> 10000, fees |-> NaN,
     baseRevenue |-> 50000, taxRate |-> NaN, debtPaydownRate |-> NaN,
     interestRates |-> NoInterestRates,
     revenueGrowth |-> <<50, 40, 30, 30, 20>>, ebitdaMargin |-> <<200, 210, 220, 220, 230>>,
     capexAsPercentOfRevenue |-> <<40, 40, 30, 30, 30>>,
     workingCapitalChange |-> <<500, 300, 200, 100, 0>>]

\* rec without one of its fields
Without(rec, field) == [f \in DOMAIN rec \ {field} |-> rec[f]]

\* Variations of the test deal.  The price and the fees are such that the internal rate
\* of return of some of them is a rate of the fixed-point grid, which is where Newton's
\* iteration can bring the net present value within tolerance; one year of the third and
\* fourth has a working capital outflow larger than its earnings.  The sixth is bought
\* for less than its debt, so that its cash flows to the sponsor have no sign change; the
\* seventh has no EBITDA in year 0; the eighth leaves its base revenue out.
DealParamsSet ==
    { [TestDeal EXCEPT !.fees = 1734],
      [TestDeal EXCEPT !.enterpriseValue = 88548],
      [TestDeal EXCEPT !.fees = 1074, !.workingCapitalChange = <<500, 6000, 200, 100, 0>>],
      [TestDeal EXCEPT !.fees = 1198, !.workingCapitalChange = <<500, 6000, 200, 100, 0>>],
      Without(TestDeal, "revenueGrowth"),
      [TestDeal EXCEPT !.enterpriseValue = 40000],
      [TestDeal EXCEPT !.fees = 226, !.ebitdaMargin = <<0, 210, 220, 220, 230>>],
      [TestDeal EXCEPT !.fees = 1734, !.baseRevenue = NaN] }

LBOSensitivityRangesSet ==
    LET Ms == Prefixes(<<9000, 11000, 12000>>, MaxGrid)
        Gs == Prefixes(<<40, 20, 30>>, MaxGrid)
    IN  {<<>>} \cup {[exitMultiples |-> m, revenueGrowthRates |-> g] : m \in Ms, g \in Gs}

DistributionsSet ==
    { Null,
      [exitMultiple |-> [mean |-> 10000, std |-> 0]],
      [exitMultiple |-> [mean |-> 10000, std |-> 500],
       revenueGrowth |-> [mean |-> 50, std |-> 10],
       ebitdaMargin |-> [mean |-> 200, std |-> 20]] }

InitDCF ==
    /\ dcf \in {DCFModel(o) : o \in DCFOptions}
    /\ financialData \in FinancialDataSet
    /\ projections \in ProjectionsSet
    /\ lbo = None
    /\ dealParams = None

InitLBO ==
    /\ lbo \in {LBOModel(o) : o \in LBOOptions}
    /\ dealParams \in DealParamsSet
    /\ dcf = None
    /\ financialData = None
    /\ projections = None

Init ==
    /\ InitDCF \/ InitLBO
    /\ call = Idle
    /\ lastDCF = [op |-> "none"]
    /\ rootFinder = None

\* lastDCF also tells whether the call before this one was made on the same instance
\* fields, the caller's inputs being the same throughout
CalculateDCFDone(out) ==
    /\ dcf' = out.this
    /\ call' = [op |-> "calculateDCF", before |-> dcf, out |-> out]
    /\ lastDCF' = [op |-> "calculateDCF", this |-> dcf, out |-> out,
                   repeated |-> lastDCF.op = "calculateDCF" /\ lastDCF.this = dcf]

CalculateDCF ==
    /\ call = Idle
    /\ dcf # None
    /\ CalculateDCFDone(calculateDCF(dcf, financialData, projections))
    /\ UNCHANGED <<financialData, projections, lbo, dealParams, rootFinder>>

SensitivityAnalysisDone(ranges, out) ==
    /\ dcf' = out.this
    /\ call' = [op |-> "sensitivityAnalysis", before |-> dcf, out |-> out,
                discountRates |-> RangeOr(ranges, "discountRates", DefaultDiscountRates),
                terminalGrowthRates |->
                    RangeOr(ranges, "terminalGrowthRates", DefaultTerminalGrowthRates)]

SensitivityAnalysis ==
    /\ call = Idle
    /\ dcf # None
    /\ \E ranges \in SensitivityRangesSet :
           SensitivityAnalysisDone(ranges,
               sensitivityAnalysis(dcf, financialData, projections, ranges))
    /\ UNCHANGED <<financialData, projections, lastDCF, lbo, dealParams, rootFinder>>

MonteCarloDCFDone(streams, draws, out) ==
    /\ dcf' = out.this
    /\ call' = [op |-> "monteCarloDCF", before |-> dcf, out |-> out,
                simulations |-> Len(streams), streams |-> streams, draws |-> draws]

MonteCarloDCFRun(streams, run) ==
    \E rejectsEmpty \in BOOLEAN :
        MonteCarloDCFDone(streams, run.draws, MonteCarloSummary(run, rejectsEmpty))

MonteCarloDCF ==
    /\ call = Idle
    /\ dcf # None
    /\ \E simulations \in 0..MaxSimulations :
           \E streams \in [1..simulations -> Streams] :
               MonteCarloDCFRun(streams,
                   MonteCarloRun(dcf, financialData, projections, streams))
    /\ UNCHANGED <<financialData, projections, lastDCF, lbo, dealParams, rootFinder>>

CalculateLBODone(out) ==
    /\ lbo' = out.this
    /\ call' = [op |-> "calculateLBO", before |-> lbo, out |-> out]

CalculateLBO ==
    /\ call = Idle
    /\ lbo # None
    /\ CalculateLBODone(calculateLBO(lbo, dealParams))
    /\ UNCHANGED <<dcf, financialData, projections, lastDCF, dealParams, rootFinder>>

LBOSensitivityAnalysisDone(ranges, out) ==
    /\ lbo' = out.this
    /\ call' = [op |-> "lboSensitivityAnalysis", before |-> lbo, out |-> out,
                exitMultiples |-> RangeOr(ranges, "exitMultiples", DefaultExitMultiples),
                revenueGrowthRates |->
                    RangeOr(ranges, "revenueGrowthRates", DefaultRevenueGrowthRates)]

LBOSensitivityAnalysis ==
    /\ call = Idle
    /\ lbo # None
    /\ \E ranges \in LBOSensitivityRangesSet :
           LBOSensitivityAnalysisDone(ranges, lboSensitivityAnalysis(lbo, dealParams, ranges))
    /\ UNCHANGED <<dcf, financialData, projections, lastDCF, dealParams, rootFinder>>

MonteCarioLBODone(distributions, streams, draws, out) ==
    /\ lbo' = out.this
    /\ call' = [op |-> "monteCarioLBO", before |-> lbo, out |-> out,
                distributions |-> distributions,
                simulations |-> Len(streams), streams |-> streams, draws |-> draws]

MonteCarioLBORun(distributions, streams, run) ==
    \E rejectsEmpty \in BOOLEAN :
        MonteCarioLBODone(distributions, streams, run.draws,
                          LBOMonteCarloSummary(run, rejectsEmpty))

MonteCarioLBO ==
    /\ call = Idle
    /\ lbo # None
    /\ \E distributions \in DistributionsSet :
           \E simulations \in 0..MaxSimulations :
               \E streams \in [1..simulations -> Streams] :
                   MonteCarioLBORun(distributions, streams,
                       LBOMonteCarloRun(lbo, dealParams, distributions, streams))
    /\ UNCHANGED <<dcf, financialData, projections, lastDCF, dealParams, rootFinder>>

\* the caller takes the outcome of the call
TakeResult ==
    /\ call # Idle
    /\ call' = Idle
    /\ UNCHANGED <<dcf, financialData, projections, lastDCF, lbo, dealParams, rootFinder>>

Next ==
    \/ CalculateDCF
    \/ SensitivityAnalysis
    \/ MonteCarloDCF
    \/ CalculateLBO
    \/ LBOSensitivityAnalysis
    \/ MonteCarioLBO
    \/ TakeResult

Spec == Init /\ [][Next]_vars

(***************************************************************************)
(* Long simulation runs.  monteCarloDCF and monteCarioLBO are called with  *)
(* about a hundred simulations, which is where results.slice(0, 100) cuts. *)
(***************************************************************************)
LongRunMin == 99
LongRunMax == 102

\* the second draw of a run consumes the stream a, the other draws the stream b
PatternedStreams(simulations, a, b) == [i \in 1..simulations |-> IF i = 2 THEN a ELSE b]

LongRunStreams ==
    {PatternedStreams(n, a, b) : n \in LongRunMin..LongRunMax, a \in Streams,
                                 b \in {st \in Streams : st.first \in {1, 2}}}

\* one engine of each model, whose draws succeed for some streams and fail for others
InitMC ==
    /\ Init
    /\ dcf # None => /\ dcf = DCFModel([discountRate |-> 30, terminalGrowthRate |-> 45,
                                        projectionYears |-> 2, taxRate |-> 300])
                     /\ financialData.sharesOutstanding = 10000
                     /\ "revenueGrowth" \in DOMAIN projections
                     /\ Len(projections.workingCapitalChange) >= 2
    /\ lbo # None => /\ lbo = LBOModel([targetIRR |-> 300, holdPeriod |-> 2,
                                        maxDebtMultiple |-> 5000, minEquityContribution |-> 0])
                     /\ dealParams = [TestDeal EXCEPT !.fees = 1734]

LongMonteCarloDCF ==
    /\ call = Idle
    /\ dcf # None
    /\ \E streams \in LongRunStreams :
           MonteCarloDCFRun(streams, MonteCarloRun(dcf, financialData, projections, streams))
    /\ UNCHANGED <<financialData, projections, lastDCF, lbo, dealParams, rootFinder>>

LongMonteCarioLBO ==
    /\ call = Idle
    /\ lbo # None
    /\ \E distributions \in DistributionsSet :
           \E streams \in LongRunStreams :
               MonteCarioLBORun(distributions, streams,
                   LBOMonteCarloRun(lbo, dealParams, distributions, streams))
    /\ UNCHANGED <<dcf, financialData, projections, lastDCF, dealParams, rootFinder>>

NextMC == LongMonteCarloDCF \/ LongMonteCarioLBO \/ TakeResult

SpecMC == InitMC /\ [][NextMC]_vars

(***************************************************************************)
(* The constructors, one call at a time: an engine is built from options   *)
(* of which each is left out, 0, or a value of the caller's.               *)
(***************************************************************************)
NewDCFOptions ==
    [discountRate : {NaN, 0, 80}, terminalGrowthRate : {NaN, 0, 30},
     projectionYears : {NaN, 0, -1, 3}, taxRate : {NaN, 0, 300}]

NewLBOOptions ==
    [targetIRR : {NaN, 0, 250}, holdPeriod : {NaN, 0, -1, 3},
     maxDebtMultiple : {NaN, 0, 4500}, minEquityContribution : {NaN, 0, 400}]

InitNew ==
    /\ dcf = None
    /\ financialData = None
    /\ projections = None
    /\ lbo = None
    /\ dealParams = None
    /\ call = Idle
    /\ lastDCF = [op |-> "none"]
    /\ rootFinder = None

NewDCFModel ==
    /\ call = Idle
    /\ \E options \in NewDCFOptions :
           /\ dcf' = DCFModel(options)
           /\ call' = [op |-> "new DCFModel", options |-> options]
    /\ UNCHANGED <<financialData, projections, lbo, dealParams, lastDCF, rootFinder>>

NewLBOModel ==
    /\ call = Idle
    /\ \E options \in NewLBOOptions :
           /\ lbo' = LBOModel(options)
           /\ call' = [op |-> "new LBOModel", options |-> options]
    /\ UNCHANGED <<dcf, financialData, projections, dealParams, lastDCF, rootFinder>>

NextNew == NewDCFModel \/ NewLBOModel

SpecNew == InitNew /\ [][NextNew]_vars

(***************************************************************************)
(* calculateIRR step by step: one call of the root finder, one pass of its *)
(* while loop at a time.  rootFinder holds the cash-flow stream and the   *)
(* solver while the call is running.                                       *)
(***************************************************************************)
IRRInputs ==
    { <<100000, <<0>>, 121000>>,
      <<100000, <<20000, 20000>>, 100000>>,
      <<100000, <<20000, 20000, 20000, 20000, 20000>>, 100000>>,
      <<99985, <<20000, 20000, 20000, 20000, 20000>>, 100000>>,
      <<400000, <<30000>>, 470000>>,
      <<400000, <<31234>>, 475123>>,
      <<100000, <<-10000, -10000>>, -100000>>,
      <<100000, <<0, 0>>, 0>>,
      <<0, <<0, 0>>, 0>>,
      <<100000, <<0, 0>>, PInf>>,
      <<-100000, <<0>>, 50000>> }

InitIRR ==
    /\ dcf = None
    /\ financialData = None
    /\ projections = None
    /\ lbo = None
    /\ dealParams = None
    /\ call = Idle
    /\ lastDCF = [op |-> "none"]
    /\ rootFinder = None

\* lines 178-184
CalculateIRRBegin ==
    /\ call = Idle
    /\ rootFinder = None
    /\ \E input \in IRRInputs :
           rootFinder' = [allCashFlows |-> AllCashFlows(input[1], input[2], input[3]),
                   solver |-> IRRStart]
    /\ UNCHANGED <<dcf, financialData, projections, lbo, dealParams, call, lastDCF>>

\* lines 186-204: one pass of the while loop
CalculateIRRPass ==
    /\ rootFinder # None
    /\ IRRLooping(rootFinder.solver)
    /\ rootFinder' = [rootFinder EXCEPT !.solver = IRRPass(rootFinder.allCashFlows, rootFinder.solver)]
    /\ UNCHANGED <<dcf, financialData, projections, lbo, dealParams, call, lastDCF>>

\* lines 198-200 and 206-210: the call completes
CalculateIRREnd ==
    /\ rootFinder # None
    /\ ~IRRLooping(rootFinder.solver)
    /\ call' = [op |-> "calculateIRR", allCashFlows |-> rootFinder.allCashFlows,
                solver |-> rootFinder.solver, out |-> IRRCompletion(rootFinder.solver)]
    /\ rootFinder' = None
    /\ UNCHANGED <<dcf, financialData, projections, lbo, dealParams, lastDCF>>

NextIRR == CalculateIRRBegin \/ CalculateIRRPass \/ CalculateIRREnd \/ TakeResult

\* a call that has begun runs on: the loop is the only thing the thread does
SpecIRR ==
    /\ InitIRR
    /\ [][NextIRR]_vars
    /\ WF_vars(CalculateIRRPass)
    /\ WF_vars(CalculateIRREnd)

(***************************************************************************)
(* Properties of DCFModel.calculateDCF                                     *)
(***************************************************************************)
\* C1: whenever the discount rate of the instance is less than or equal to its terminal
\* growth rate, calculateDCF fails with an error; it never returns a result computed
\* from a zero or negative (discountRate - terminalGrowthRate).
C1_InvalidRatePairRejected ==
    (call.op = "calculateDCF" /\ Le(call.before.discountRate, call.before.terminalGrowthRate))
        => call.out.threw

C15_MalformedInputsRejected ==
    (/\ call.op = "calculateDCF"
     /\ \/ \E f \in ProjectionFields \cap DOMAIN projections :
               Len(projections[f]) # call.before.projectionYears
        \/ Lt(financialData.sharesOutstanding, 0))
        => call.out.threw

\* the quotients of lines 77 and 79 on the fields of a result
IntrinsicValueOf(results) == Div(results.presentValue, results.sharesOutstanding)
UpsideOf(results) == Div(Sub(results.intrinsicValue, results.currentPrice), results.currentPrice)

IntrinsicValueGuarded(results) ==
    results.intrinsicValue =
        IF Gt(results.sharesOutstanding, 0) THEN IntrinsicValueOf(results) ELSE 0

\* C16 as it was claimed: intrinsicValue is presentValue / sharesOutstanding exactly when
\* sharesOutstanding > 0, and upside is (intrinsicValue - currentPrice) / currentPrice
\* exactly when currentPrice > 0.
C16_UpsideWheneverPriced ==
    (call.op = "calculateDCF" /\ ~call.out.threw)
        => /\ IntrinsicValueGuarded(call.out.value)
           /\ call.out.value.upside =
                  IF Gt(call.out.value.currentPrice, 0) THEN UpsideOf(call.out.value) ELSE 0

\* C16: intrinsicValue is presentValue / sharesOutstanding exactly when
\* sharesOutstanding > 0, and upside is (intrinsicValue - currentPrice) / currentPrice
\* exactly when sharesOutstanding > 0 and currentPrice > 0; each is 0 otherwise, so no
\* result carries a quotient by a zero or negative sharesOutstanding or a zero
\* currentPrice.
C16_GuardedQuotients ==
    (call.op = "calculateDCF" /\ ~call.out.threw)
        => /\ IntrinsicValueGuarded(call.out.value)
           /\ call.out.value.upside =
                  IF Gt(call.out.value.sharesOutstanding, 0) /\ Gt(call.out.value.currentPrice, 0)
                  THEN UpsideOf(call.out.value) ELSE 0

\* a priced company without shares outstanding has been valued: no upside is computed
C16_Witness ==
    /\ call.op = "calculateDCF"
    /\ ~call.out.threw
    /\ call.out.value.sharesOutstanding = 0
    /\ Gt(call.out.value.currentPrice, 0)
    /\ call.out.value.upside = 0
    /\ call.out.value.intrinsicValue = 0
    /\ IsInf(IntrinsicValueOf(call.out.value)) \/ IsNaN(IntrinsicValueOf(call.out.value))

\* the records of a result carry the years from, from + 1, ... in this order
YearsAscending(records, from) == \A i \in DOMAIN records : records[i].year = from + i - 1

\* a deal of the shape of the analytics test: five-element arrays, subordinatedDebt and
\* fees omitted
TestShaped(dp) ==
    /\ \A f \in DealArrays : f \in DOMAIN dp /\ Len(dp[f]) = 5
    /\ IsNaN(dp.subordinatedDebt)
    /\ IsNaN(dp.fees)

RootFinderErrors ==
    {"IRR calculation failed: maximum iterations reached",
     "IRR calculation failed: derivative too small"}

Amount(x) == IF IsNaN(x) THEN 0 ELSE x

\* the result of the calculateDCF call in progress, when it has returned one
DCFReturned == call.op = "calculateDCF" /\ ~call.out.threw
CashFlows == call.out.value.projectedCashFlows

\* every array of the projections supplies a value for year y
AllSupplied(y) == \A f \in ProjectionFields : f \in DOMAIN projections /\ Len(projections[f]) >= y

\* the revenue that year y is chained on
RevenueBefore(y) == IF y = 1 THEN Amount(financialData.revenue) ELSE CashFlows[y - 1].revenue

\* the record of year y follows from the values supplied for year y
YearFromSupplied(rec, y) ==
    /\ rec.revenue = Mul(RevenueBefore(y), Add(Scale, projections.revenueGrowth[y]))
    /\ rec.ebitda = Mul(rec.revenue, projections.ebitdaMargin[y])
    /\ rec.ebit = Sub(rec.ebitda, projections.depreciation[y])
    /\ rec.nopat = Sub(rec.ebit, Mul(rec.ebit, call.before.taxRate))
    /\ rec.freeCashFlow =
           Sub(Sub(Add(rec.nopat, projections.depreciation[y]), projections.capex[y]),
               projections.workingCapitalChange[y])
    /\ rec.presentValue =
           Div(rec.freeCashFlow, MathPow(Add(Scale, call.before.discountRate), y))

\* C23: for every year y of 1..projectionYears and every supplied value, the value 0 of
\* a margin, a depreciation or a capex included, calculateDCF computes revenue_y =
\* revenue_(y-1) * (1 + growth_y), ebitda_y = revenue_y * margin_y, ebit_y = ebitda_y -
\* depreciation_y, nopat_y = ebit_y * (1 - taxRate), freeCashFlow_y = nopat_y +
\* depreciation_y - capex_y - workingCapitalChange_y and presentValue_y = freeCashFlow_y /
\* (1 + discountRate)^y from the supplied value, with no substituted default.
C23_YearsFromSuppliedValues ==
    DCFReturned
        => \A y \in 1..call.before.projectionYears :
               AllSupplied(y) => YearFromSupplied(CashFlows[y], y)

\* the presentValue fields of the projected years, in order
YearlyPresentValues == [y \in 1..Len(CashFlows) |-> CashFlows[y].presentValue]

\* C24: in every calculateDCF result, terminalValue is the free cash flow of the last
\* projected year times (1 + terminalGrowthRate) divided by (discountRate -
\* terminalGrowthRate), and presentValue is the sum of the per-year presentValue fields
\* plus terminalValue / (1 + discountRate)^projectionYears.
C24_TerminalAndPresentValue ==
    DCFReturned
        => /\ call.out.value.terminalValue =
                  Div(Mul(CashFlows[call.before.projectionYears].freeCashFlow,
                          Add(Scale, call.before.terminalGrowthRate)),
                      Sub(call.before.discountRate, call.before.terminalGrowthRate))
           /\ call.out.value.presentValue =
                  Add(SumOf(YearlyPresentValues),
                      Div(call.out.value.terminalValue,
                          MathPow(Add(Scale, call.before.discountRate),
                                  call.before.projectionYears)))

\* the test inputs valued over five years at 10% and 2.5%: a finite terminal value on top
\* of five yearly present values
C24_Witness ==
    /\ DCFReturned
    /\ call.before = DCFModel([discountRate |-> 0, terminalGrowthRate |-> 0,
                               projectionYears |-> 0, taxRate |-> 0])
    /\ projections = TestProjections
    /\ Gt(call.out.value.terminalValue, 0) /\ Lt(call.out.value.terminalValue, Huge)
    /\ Gt(call.out.value.presentValue, SumOf(YearlyPresentValues))

(***************************************************************************)
(* Properties of DCFModel.sensitivityAnalysis                              *)
(***************************************************************************)
\* the cells of the grid of the call in progress
GridCells == (DOMAIN call.discountRates) \X (DOMAIN call.terminalGrowthRates)

\* calculateDCF with the pair of cell c substituted in the instance
CellDCF(c) ==
    calculateDCF(WithRates(call.before, call.discountRates[c[1]],
                           call.terminalGrowthRates[c[2]]),
                 financialData, projections)

AllPairsValid ==
    \A c \in GridCells : Gt(call.discountRates[c[1]], call.terminalGrowthRates[c[2]])

\* the row of cell c in a table of the whole grid
RowOfCell(c) == call.out.value[(c[1] - 1) * Len(call.terminalGrowthRates) + c[2]]

CellInRow(c, results) ==
    /\ RowOfCell(c).discountRate = call.discountRates[c[1]]
    /\ RowOfCell(c).terminalGrowthRate = call.terminalGrowthRates[c[2]]
    /\ RowOfCell(c).intrinsicValue = results.intrinsicValue
    /\ RowOfCell(c).upside = results.upside

\* C3: sensitivityAnalysis over discount rates D and terminal growth rates T, every
\* pair valid (D[i] > T[j]) and valued by calculateDCF, returns |D| x |T| rows; the row
\* of D[i] and T[j] is row (i-1)*|T|+j counting from 1, it carries D[i] and T[j], and
\* its intrinsicValue and upside are those calculateDCF returns with the pair
\* substituted in the instance.
C3_SensitivityGrid ==
    (/\ call.op = "sensitivityAnalysis"
     /\ AllPairsValid
     /\ \A c \in GridCells : ~CellDCF(c).threw)
        => /\ ~call.out.threw
           /\ Len(call.out.value) = Len(call.discountRates) * Len(call.terminalGrowthRates)
           /\ \A c \in GridCells : CellInRow(c, CellDCF(c).value)

\* the default grid of 5 x 5 valid pairs has been tabulated, with upsides of both signs
C3_Witness ==
    /\ call.op = "sensitivityAnalysis"
    /\ call.discountRates = DefaultDiscountRates
    /\ AllPairsValid
    /\ ~call.out.threw
    /\ Len(call.out.value) = 25
    /\ \E c \in GridCells : Gt(RowOfCell(c).upside, 0)
    /\ \E c \in GridCells : Lt(RowOfCell(c).upside, 0)

\* C10: when calculateDCF raises an exception for a cell of the grid, the call still
\* returns, and the table has the rows of the cells that calculateDCF values.
C10_FailedCellSkipped ==
    call.op = "sensitivityAnalysis"
        => /\ ~call.out.threw
           /\ Len(call.out.value) = Cardinality({c \in GridCells : ~CellDCF(c).threw})

\* C12: on every exit path of a sensitivityAnalysis or monteCarloDCF call, by a return
\* or by an exception, the discountRate and terminalGrowthRate of the instance are those
\* it had before the call.
C12_RatesRestored ==
    call.op \in {"sensitivityAnalysis", "monteCarloDCF"}
        => /\ dcf.discountRate = call.before.discountRate
           /\ dcf.terminalGrowthRate = call.before.terminalGrowthRate

(***************************************************************************)
(* Properties of LBOModel.calculateLBO                                     *)
(***************************************************************************)
\* C4: in every result of calculateLBO the debt balance is at least 0 in every year, at
\* most max(0, totalDebt) in year 0, and in no year above that of the year before,
\* whatever the sign of the free cash flows.
C4_DebtBalanceMonotone ==
    (call.op = "calculateLBO" /\ ~call.out.threw)
        => /\ Len(call.out.value.projections) = call.before.holdPeriod + 1
           /\ \A y \in DOMAIN call.out.value.projections :
                  Ge(call.out.value.projections[y].debtBalance, 0)
           /\ \A y \in DOMAIN call.out.value.projections \ {1} :
                  Le(call.out.value.projections[y].debtBalance,
                     call.out.value.projections[y - 1].debtBalance)
           /\ Le(call.out.value.projections[1].debtBalance,
                 MathMax(0, call.out.value.sourceAndUses.sources.totalDebt))

\* a result with a year of negative free cash flow, and a year in which debt was paid
C4_Witness ==
    /\ call.op = "calculateLBO"
    /\ ~call.out.threw
    /\ \E y \in DOMAIN call.out.value.projections :
           Lt(call.out.value.projections[y].freeCashFlow, 0)
    /\ \E y \in DOMAIN call.out.value.projections \ {1} :
           Lt(call.out.value.projections[y].debtBalance,
              call.out.value.projections[y - 1].debtBalance)

\* the root finder on the cash flows that a returned result reports
ResultIRR(results) ==
    calculateIRR(results.returns.entryEquity,
                 MapField(Slice1(results.projections), "cashToSponsor"),
                 results.returns.exitEquityValue)

\* the root finder on the cash flows that the projection of a well-formed deal yields
ProjectedIRR(this, dp, projected) ==
    calculateIRR(LBOEquityContribution(dp), MapField(Slice1(projected), "cashToSponsor"),
                 LBOExitEquityValue(this, dp, projected))
DealIRR(this, dp) ==
    ProjectedIRR(this, dp, LBOLoop(this, dp, 0, LBOCurrentRevenue(dp), LBOTotalDebt(dp), <<>>))

\* C13: when the root finder fails on the cash flows of the deal, calculateLBO fails
\* with the LBO calculation error and the message of the root finder as its cause; a
\* result that is returned carries the rate the root finder returns for its cash flows
\* from the starting guess, never an undefined or default one.
C13_RootFinderFailurePropagates ==
    call.op = "calculateLBO"
        => /\ (~LBOTypeError(call.before, dealParams) /\ DealIRR(call.before, dealParams).threw)
                => /\ call.out.threw
                   /\ call.out.value.message = "LBO calculation failed"
                   /\ call.out.value.cause = DealIRR(call.before, dealParams).value.message
           /\ ~call.out.threw
                => /\ ~ResultIRR(call.out.value).threw
                   /\ call.out.value.returns.irr = ResultIRR(call.out.value).value
                   /\ ~IsNaN(call.out.value.returns.irr)

\* the root finder has failed on a deal whose cash flows have no sign change
C13_Witness ==
    /\ call.op = "calculateLBO"
    /\ call.out.threw
    /\ ~LBOTypeError(call.before, dealParams)
    /\ Lt(LBOEquityContribution(dealParams), 0)
    /\ call.out.value.cause = "IRR calculation failed: derivative too small"

\* C14: no result of calculateLBO holds a credit metric or a return ratio obtained by
\* dividing by zero: the EBITDA and the debt balance of every year, the EBITDA, the
\* total debt, the equity and the price of the deal are other than zero.
C14_NoDivisionByZero ==
    (call.op = "calculateLBO" /\ ~call.out.threw)
        => /\ \A y \in DOMAIN call.out.value.projections :
                  /\ call.out.value.projections[y].ebitda # 0
                  /\ call.out.value.projections[y].debtBalance # 0
           /\ dealParams.ebitda # 0
           /\ dealParams.enterpriseValue # 0
           /\ call.out.value.sourceAndUses.sources.totalDebt # 0
           /\ call.out.value.returns.entryEquity # 0

(***************************************************************************)
(* Properties of LBOModel.sensitivityAnalysis                              *)
(***************************************************************************)
LBOGridCells == (DOMAIN call.exitMultiples) \X (DOMAIN call.revenueGrowthRates)

\* calculateLBO on the deal with the pair of cell c substituted
CellLBO(c) ==
    calculateLBO(call.before,
                 With(With(dealParams, "exitMultiple", call.exitMultiples[c[1]]),
                      "revenueGrowth",
                      [k \in 1..call.before.holdPeriod |-> call.revenueGrowthRates[c[2]]]))

SuccessfulCells == {c \in LBOGridCells : ~CellLBO(c).threw}

\* the place of cell c among the successful cells, in the order of the loops
RankOfCell(c) ==
    Cardinality({d \in SuccessfulCells : d[1] < c[1] \/ (d[1] = c[1] /\ d[2] <= c[2])})

LBOCellInRow(c, row, results) ==
    /\ row.exitMultiple = call.exitMultiples[c[1]]
    /\ row.revenueGrowth = call.revenueGrowthRates[c[2]]
    /\ row.irr = results.returns.irr
    /\ row.totalMultiple = results.returns.totalMultiple
    /\ row.maxLeverage = results.creditMetrics.maxDebtToEbitda

\* C11: sensitivityAnalysis of LBOModel returns one row for each pair whose calculateLBO
\* succeeds and none for the others, in the order of the loops (exit multiple first).
C11_LBOSensitivityRows ==
    call.op = "lboSensitivityAnalysis"
        => /\ ~call.out.threw
           /\ Len(call.out.value) = Cardinality(SuccessfulCells)
           /\ \A c \in SuccessfulCells :
                  LBOCellInRow(c, call.out.value[RankOfCell(c)], CellLBO(c).value)

(***************************************************************************)
(* Properties of the Monte Carlo simulations                               *)
(***************************************************************************)
\* draw i of the monteCarloDCF call in progress yields a valuation
DCFDrawCompletes(i) ==
    /\ ~generateRandomProjections(call.before, projections, call.streams[i]).threw
    /\ ~calculateDCF(DrawRates(call.before, call.streams[i]), financialData,
                     generateRandomProjections(call.before, projections,
                                               call.streams[i]).value).threw

\* draw i of the monteCarioLBO call in progress yields a result
LBODrawCompletes(i) ==
    /\ ~generateRandomLBOParams(call.before, dealParams, call.distributions,
                                call.streams[i]).threw
    /\ ~calculateLBO(call.before,
                     generateRandomLBOParams(call.before, dealParams, call.distributions,
                                             call.streams[i]).value).threw

CompletedDraws ==
    IF call.op = "monteCarloDCF" THEN {i \in DOMAIN call.streams : DCFDrawCompletes(i)}
    ELSE {i \in DOMAIN call.streams : LBODrawCompletes(i)}

\* C8: the simulations field that monteCarloDCF and monteCarioLBO return is the number
\* of draws whose point estimate completed without error; it is at most the number of
\* simulations requested, and it is not that number when a draw failed.
C8_SimulationsCount ==
    (call.op \in {"monteCarloDCF", "monteCarioLBO"} /\ ~call.out.threw)
        => /\ call.out.value.simulations = Cardinality(CompletedDraws)
           /\ call.out.value.simulations <= call.simulations
           /\ CompletedDraws # DOMAIN call.streams
                  => call.out.value.simulations # call.simulations

\* two LBO simulations requested, one of them failed, one sample reported
C8_Witness ==
    /\ call.op = "monteCarioLBO"
    /\ ~call.out.threw
    /\ call.simulations = 2
    /\ Cardinality(CompletedDraws) = 1
    /\ call.out.value.simulations = 1

\* C9: an exception raised while a draw is generated or evaluated is caught inside the
\* loop: it does not reach the caller, and every requested draw is made.
C9_DrawFailuresCaught ==
    call.op \in {"monteCarloDCF", "monteCarioLBO"}
        => /\ Len(call.draws) = call.simulations
           /\ \A i \in DOMAIN call.draws : call.draws[i] # "escaped"

\* the rates with which draw i of the monteCarloDCF call in progress is evaluated
RatesOfDraw(i) == DrawRates(call.before, call.streams[i])

\* C17: every draw of monteCarloDCF is evaluated with discountRate >= 0.05,
\* 0 <= terminalGrowthRate <= 0.05 and discountRate > terminalGrowthRate.
C17_DrawnRatesValid ==
    call.op = "monteCarloDCF"
        => \A i \in DOMAIN call.draws :
               call.draws[i] # "escaped"
                   => /\ Ge(RatesOfDraw(i).discountRate, 50)
                      /\ Ge(RatesOfDraw(i).terminalGrowthRate, 0)
                      /\ Le(RatesOfDraw(i).terminalGrowthRate, 50)
                      /\ Gt(RatesOfDraw(i).discountRate, RatesOfDraw(i).terminalGrowthRate)

\* the samples of the successful draws of the monteCarloDCF call in progress, in draw
\* order, as the caller can compute them one draw at a time
SampleOfDraw(i) ==
    MonteCarloSample(
        calculateDCF(RatesOfDraw(i), financialData,
                     generateRandomProjections(call.before, projections,
                                               call.streams[i]).value).value)
\* the samples of the successful draws among lo..hi, in draw order
RECURSIVE SamplesOf(_, _)
SamplesOf(lo, hi) ==
    IF lo > hi THEN <<>>
    ELSE IF lo = hi THEN IF DCFDrawCompletes(lo) THEN <<SampleOfDraw(lo)>> ELSE <<>>
    ELSE SamplesOf(lo, (lo + hi) \div 2) \o SamplesOf(((lo + hi) \div 2) + 1, hi)
SamplesFrom(i) == SamplesOf(i, Len(call.streams))

AggregatedIntrinsicValues == SelectSeq(MapField(SamplesFrom(1), "intrinsicValue"), IsPositive)
AggregatedUpsides == SelectSeq(MapField(SamplesFrom(1), "upside"), IsNumber)

\* the filters of C19: the statistics are those of the aggregated values
C19Aggregated ==
    /\ call.out.value.intrinsicValue.mean = StatsMean(AggregatedIntrinsicValues)
    /\ call.out.value.intrinsicValue.min = MinOf(AggregatedIntrinsicValues)
    /\ call.out.value.intrinsicValue.max = MaxOf(AggregatedIntrinsicValues)
    /\ call.out.value.upside.mean = StatsMean(AggregatedUpsides)
    /\ call.out.value.probabilityOfPositiveUpside =
           Over(Len(SelectSeq(AggregatedUpsides, IsPositive)) * Scale, Len(AggregatedUpsides))

\* C19: the intrinsicValue statistics of monteCarloDCF are those of the successful
\* samples with a positive intrinsicValue, the upside statistics those of the successful
\* samples whose upside is a number, and probabilityOfPositiveUpside is the share of the
\* aggregated upsides above 0, a number between 0 and 1.
C19_StatisticsOverFiltered ==
    (call.op = "monteCarloDCF" /\ ~call.out.threw)
        => /\ C19Aggregated
           /\ Ge(call.out.value.probabilityOfPositiveUpside, 0)
           /\ Le(call.out.value.probabilityOfPositiveUpside, Scale)

\* C20: a Monte Carlo call whose loop has run to its end returns a summary, whatever the
\* number of successful and of valid samples, with the true count in simulations.
C20_SummaryForAnyCount ==
    (/\ call.op \in {"monteCarloDCF", "monteCarioLBO"}
     /\ \A i \in DOMAIN call.draws : call.draws[i] # "escaped")
        => /\ ~call.out.threw
           /\ call.out.value.simulations = Cardinality(CompletedDraws)

LBOSampleOfDraw(i) ==
    LBOMonteCarloSample(
        calculateLBO(call.before,
                     generateRandomLBOParams(call.before, dealParams, call.distributions,
                                             call.streams[i]).value).value)
RECURSIVE LBOSamplesOf(_, _)
LBOSamplesOf(lo, hi) ==
    IF lo > hi THEN <<>>
    ELSE IF lo = hi THEN IF LBODrawCompletes(lo) THEN <<LBOSampleOfDraw(lo)>> ELSE <<>>
    ELSE LBOSamplesOf(lo, (lo + hi) \div 2) \o LBOSamplesOf(((lo + hi) \div 2) + 1, hi)
LBOSamplesFrom(i) == LBOSamplesOf(i, Len(call.streams))

SuccessfulSamples == IF call.op = "monteCarloDCF" THEN SamplesFrom(1) ELSE LBOSamplesFrom(1)

\* C18: the results list that monteCarloDCF and monteCarioLBO return holds the first
\* min(100, simulations) successfully evaluated samples in draw order, simulations being
\* their number: at most 100 entries, none of them from a failed draw.
C18_FirstHundredSamples ==
    (call.op \in {"monteCarloDCF", "monteCarioLBO"} /\ ~call.out.threw)
        => /\ Len(call.out.value.results) <= 100
           /\ Len(call.out.value.results) =
                  IF call.out.value.simulations < 100 THEN call.out.value.simulations ELSE 100
           /\ call.out.value.results =
                  SubSeq(SuccessfulSamples, 1, Len(call.out.value.results))

\* a run of more than 100 successful draws and some failed ones has returned
C18_Witness ==
    /\ call.op \in {"monteCarloDCF", "monteCarioLBO"}
    /\ ~call.out.threw
    /\ call.out.value.simulations > 100
    /\ call.out.value.simulations < call.simulations
    /\ "skipped" \in {call.draws[i] : i \in 1..100}
    /\ Len(call.out.value.results) = 100

\* the result of the calculateLBO call in progress, when it has returned one
LBOReturned == call.op = "calculateLBO" /\ ~call.out.threw
Sources == call.out.value.sourceAndUses.sources
Uses == call.out.value.sourceAndUses.uses

\* C22: in every result of calculateLBO, totalDebt is revolver + termLoanA + termLoanB +
\* subordinatedDebt, an omitted tranche counted as 0, equityContribution is
\* enterpriseValue - totalDebt + fees, omitted fees counted as 0, and totalSources
\* (totalDebt + equityContribution) equals totalUses (enterpriseValue + fees).
C22_SourcesEqualUses ==
    LBOReturned
        => /\ Sources.totalDebt =
                  Amount(dealParams.revolver) + Amount(dealParams.termLoanA)
                      + Amount(dealParams.termLoanB) + Amount(dealParams.subordinatedDebt)
           /\ Sources.equityContribution =
                  dealParams.enterpriseValue - Sources.totalDebt + Amount(dealParams.fees)
           /\ Sources.totalSources = Sources.totalDebt + Sources.equityContribution
           /\ Uses.totalUses = dealParams.enterpriseValue + Amount(dealParams.fees)
           /\ Sources.totalSources = Uses.totalUses

\* a deal with fees and without subordinated debt has been valued
C22_Witness ==
    /\ LBOReturned
    /\ IsNaN(dealParams.subordinatedDebt)
    /\ Gt(dealParams.fees, 0)
    /\ Sources.totalDebt = 55000
    /\ Sources.totalSources = Uses.totalUses

\* the projection of year y in the result
YearOf(y) == call.out.value.projections[y + 1]

\* the revenue every year is grown from
Baseline ==
    IF IsNaN(dealParams.baseRevenue)
    THEN Div(dealParams.ebitda, dealParams.ebitdaMargin[1])
    ELSE dealParams.baseRevenue

\* the revenue of year y had each year grown the revenue of the year before
RECURSIVE ChainedRevenue(_)
ChainedRevenue(y) ==
    IF y = 0 THEN Baseline
    ELSE Mul(ChainedRevenue(y - 1), Add(Scale, dealParams.revenueGrowth[y]))

GrowthRatesDiffer ==
    \E y, z \in 1..call.before.holdPeriod :
        dealParams.revenueGrowth[y] # dealParams.revenueGrowth[z]

BalanceBefore(y) == IF y = 0 THEN Sources.totalDebt ELSE YearOf(y - 1).debtBalance

\* C26: for every year of a calculateLBO run, debtPaydown = max(0, freeCashFlow *
\* debtPaydownRate) is never negative, cashToSponsor + debtPaydown = freeCashFlow, and the
\* debtBalance of the year is max(0, previous balance - debtPaydown); in a year of
\* negative free cash flow the paydown is 0, the whole shortfall is charged to
\* cashToSponsor and the debt balance is unchanged.
C26_PaydownSplitsFreeCashFlow ==
    LBOReturned
        => \A y \in 0..call.before.holdPeriod :
               /\ YearOf(y).debtPaydown =
                      MathMax(0, Mul(YearOf(y).freeCashFlow, Or(dealParams.debtPaydownRate, 500)))
               /\ YearOf(y).debtPaydown >= 0
               /\ YearOf(y).cashToSponsor + YearOf(y).debtPaydown = YearOf(y).freeCashFlow
               /\ YearOf(y).debtBalance =
                      MathMax(0, BalanceBefore(y) - YearOf(y).debtPaydown)
               /\ YearOf(y).freeCashFlow < 0
                      => /\ YearOf(y).debtPaydown = 0
                         /\ YearOf(y).cashToSponsor = YearOf(y).freeCashFlow
                         /\ YearOf(y).debtBalance = BalanceBefore(y)

\* a result with a year of negative free cash flow after a year in which debt was paid
C26_Witness ==
    /\ LBOReturned
    /\ \E y \in 1..call.before.holdPeriod :
           /\ YearOf(y).freeCashFlow < 0
           /\ YearOf(y).cashToSponsor < 0
           /\ YearOf(y - 1).debtPaydown > 0
           /\ YearOf(y).debtBalance = YearOf(y - 1).debtBalance
           /\ YearOf(y).debtBalance > 0

Returns == call.out.value.returns

\* cashToSponsor summed over the years 1..y
RECURSIVE DistributedUpTo(_)
DistributedUpTo(y) == IF y = 0 THEN 0 ELSE DistributedUpTo(y - 1) + YearOf(y).cashToSponsor

\* the stream of holdPeriod + 1 flows: the equity paid in, then the cash of every year,
\* the exit equity value on top of the last
SponsorStream ==
    [i \in 1..(call.before.holdPeriod + 1) |->
        IF i = 1 THEN 0 - Sources.equityContribution
        ELSE IF i = call.before.holdPeriod + 1
             THEN YearOf(i - 1).cashToSponsor + Returns.exitEquityValue
             ELSE YearOf(i - 1).cashToSponsor]

\* C27: in every calculateLBO result, totalCashDistributed is the sum of cashToSponsor
\* over the years 1..holdPeriod, year 0 excluded, totalCashReturned is
\* totalCashDistributed + exitEquityValue, totalMultiple is totalCashReturned /
\* equityContribution, exitEquityValue is the ebitda of year holdPeriod times exitMultiple
\* minus the debtBalance of year holdPeriod, and the IRR is solved on the stream of
\* length holdPeriod + 1: [-equityContribution, cashToSponsor_1, ...,
\* cashToSponsor_holdPeriod + exitEquityValue].
C27_ReturnsFromSponsorStream ==
    LBOReturned
        => /\ Returns.totalCashDistributed = DistributedUpTo(call.before.holdPeriod)
           /\ Returns.totalCashReturned = Returns.totalCashDistributed + Returns.exitEquityValue
           /\ Returns.totalMultiple =
                  Div(Returns.totalCashReturned, Sources.equityContribution)
           /\ Returns.exitEquityValue =
                  Mul(YearOf(call.before.holdPeriod).ebitda, dealParams.exitMultiple)
                      - YearOf(call.before.holdPeriod).debtBalance
           /\ Len(SponsorStream) = call.before.holdPeriod + 1
           /\ ~IRRSolve(SponsorStream).threw
           /\ IRRSolve(SponsorStream).value = Returns.irr

\* a five-year result whose year 0 paid the sponsor, so that leaving it out shows
C27_Witness ==
    /\ LBOReturned
    /\ call.before.holdPeriod = 5
    /\ YearOf(0).cashToSponsor > 0
    /\ Returns.totalCashDistributed > 0
    /\ Returns.exitEquityValue > 0
    /\ Returns.irr > 0

KeyMetrics == call.out.value.keyMetrics

\* C28: in every calculateLBO result, keyMetrics.leverageWithinLimits is true exactly when
\* the maximum debtToEbitda over the years 0..holdPeriod is at most the configured
\* ceiling, keyMetrics.adequateEquityBuffer is true exactly when equityContribution /
\* enterpriseValue is at least the configured floor, and the target-IRR flag is true
\* exactly when irr >= the configured targetIRR.
C28_FlagsAgainstConfiguration ==
    LBOReturned
        => /\ KeyMetrics.leverageWithinLimits
                  <=> \A y \in 0..call.before.holdPeriod :
                          Le(YearOf(y).creditMetrics.debtToEbitda, call.before.maxDebtMultiple)
           /\ KeyMetrics.adequateEquityBuffer
                  <=> Ge(Div(Sources.equityContribution, dealParams.enterpriseValue),
                         call.before.minEquityContribution)
           /\ KeyMetrics.meetsTaxgetIRR <=> Ge(Returns.irr, call.before.targetIRR)

\* a result over a ceiling of 5.0 and under a floor of 0.5 that the defaults would pass
C28_Witness ==
    /\ LBOReturned
    /\ call.before.maxDebtMultiple = 5000
    /\ call.before.minEquityContribution = 500
    /\ ~KeyMetrics.leverageWithinLimits
    /\ ~KeyMetrics.adequateEquityBuffer
    /\ YearOf(0).creditMetrics.debtToEbitda < 6000
    /\ Sources.equityContribution * 10 > dealParams.enterpriseValue * 3

\* the defaults that the two constructors name
DCFDefaults ==
    [discountRate |-> 100, terminalGrowthRate |-> 25, projectionYears |-> 5, taxRate |-> 250]
LBODefaults ==
    [targetIRR |-> 200, holdPeriod |-> 5, maxDebtMultiple |-> 6000,
     minEquityContribution |-> 300]

\* the instance carries, for every option, the caller's value unless that is left out or 0
Configured(instance, options, defaults) ==
    \A f \in DOMAIN defaults :
        instance[f] = IF IsNaN(options[f]) \/ options[f] = 0 THEN defaults[f] ELSE options[f]

\* C29: the constructors of DCFModel and LBOModel replace every option that is missing or
\* equal to 0 by its default: terminalGrowthRate = 0 and taxRate = 0 become 0.025 and
\* 0.25, targetIRR = 0, maxDebtMultiple = 0 and minEquityContribution = 0 become 0.20,
\* 6.0 and 0.3; every non-zero supplied option is kept unchanged.
C29_ZeroOptionsDefaulted ==
    /\ call.op = "new DCFModel" => Configured(dcf, call.options, DCFDefaults)
    /\ call.op = "new LBOModel" => Configured(lbo, call.options, LBODefaults)

\* a DCF engine configured with zero growth and zero tax, and a discount rate of 8%
C29_Witness ==
    /\ call.op = "new DCFModel"
    /\ call.options.terminalGrowthRate = 0 /\ dcf.terminalGrowthRate = 25
    /\ call.options.taxRate = 0 /\ dcf.taxRate = 250
    /\ call.options.discountRate = 80 /\ dcf.discountRate = 80
    /\ IsNaN(call.options.projectionYears) /\ dcf.projectionYears = 5

\* copy holds every field of dealParams but those named, unchanged
CopiedBut(copy, replaced) ==
    \A f \in DOMAIN dealParams \ replaced : f \in DOMAIN copy /\ copy[f] = dealParams[f]

\* the parameters of cell c are a copy of dealParams with its exit multiple and holdPeriod
\* years of its revenue growth
CellOnCopy(c, modifiedParams) ==
    ~modifiedParams.threw
        => /\ CopiedBut(modifiedParams.value, {"exitMultiple", "revenueGrowth"})
           /\ {"exitMultiple", "revenueGrowth"} \subseteq DOMAIN modifiedParams.value
           /\ modifiedParams.value.exitMultiple = call.exitMultiples[c[1]]
           /\ modifiedParams.value.revenueGrowth =
                  [k \in 1..call.before.holdPeriod |-> call.revenueGrowthRates[c[2]]]

\* the parameters of a draw are a copy of dealParams in which the exit multiple, the
\* revenue growth and the margins are replaced where a distribution is given
DrawOnCopy(randomParams) ==
    ~randomParams.threw
        => /\ CopiedBut(randomParams.value,
                        {f \in {"exitMultiple", "revenueGrowth", "ebitdaMargin"} :
                            Drawn(call.distributions, f)})
           /\ Drawn(call.distributions, "revenueGrowth")
                  => Len(randomParams.value.revenueGrowth) = call.before.holdPeriod
           /\ Drawn(call.distributions, "ebitdaMargin")
                  => Len(randomParams.value.ebitdaMargin) = call.before.holdPeriod + 1

\* what the call in progress evaluated, and what it reports of it
EvaluatedOnCopies ==
    /\ call.op = "lboSensitivityAnalysis"
           => /\ \A c \in LBOGridCells :
                     CellOnCopy(c, LBOModifiedParams(call.before, dealParams,
                                                     call.exitMultiples[c[1]],
                                                     call.revenueGrowthRates[c[2]]))
              /\ ~call.out.threw
                     => /\ Len(call.out.value) = Cardinality(SuccessfulCells)
                        /\ \A c \in SuccessfulCells :
                               call.out.value[RankOfCell(c)].irr = CellLBO(c).value.returns.irr
    /\ call.op = "monteCarioLBO"
           => \A i \in DOMAIN call.streams :
                  DrawOnCopy(generateRandomLBOParams(call.before, dealParams,
                                                     call.distributions, call.streams[i]))

\* a step that is a call of sensitivityAnalysis or of monteCarioLBO on the LBO engine
LBOAnalysisStep == call = Idle /\ call'.op \in {"lboSensitivityAnalysis", "monteCarioLBO"}

StreamNPV(allCashFlows, rate) == NPV(allCashFlows, rate, Len(allCashFlows) - 1)
StreamNPVDerivative(allCashFlows, rate) ==
    NPVDerivative(allCashFlows, rate, Len(allCashFlows) - 1)

WithinTolerance(x) == Lt(MathAbs(x), tolerance)

\* C5: whenever calculateIRR returns a rate, the net present value of the stream
\* discounted at that rate is within the tolerance, and the rate is the one of the
\* pass that found it so.
C5_ReturnedRateIsRoot ==
    (call.op = "calculateIRR" /\ ~call.out.threw)
        => /\ WithinTolerance(StreamNPV(call.allCashFlows, call.out.value))
           /\ call.solver.at = "converged"
           /\ call.out.value = call.solver.rate
           /\ call.solver.npv = StreamNPV(call.allCashFlows, call.out.value)

\* a rate other than the starting guess has been returned, after Newton updates
C5_Witness ==
    /\ call.op = "calculateIRR"
    /\ ~call.out.threw
    /\ call.solver.iteration > 0
    /\ call.out.value # IRRStart.rate
    /\ Len(call.allCashFlows) = 6

\* the outcome of a call that has completed: a converged rate or a failure
IRRCompleted ==
    call.op = "calculateIRR"
        => /\ call.solver.iteration <= maxIterations
           /\ call.out.threw \/ WithinTolerance(StreamNPV(call.allCashFlows, call.out.value))
           /\ call.solver.iteration = maxIterations => call.out.threw

\* C6: calculateIRR makes at most 1000 Newton updates and every call completes; it
\* completes by returning a converged rate or by failing, and it fails when the cap of
\* 1000 iterations is hit.
C6_Terminates ==
    /\ [](rootFinder # None => rootFinder.solver.iteration <= maxIterations)
    /\ []IRRCompleted
    /\ (rootFinder # None) ~> (rootFinder = None /\ call.op = "calculateIRR")

\* a call has failed at the cap, its rate NaN
C6_Witness ==
    /\ call.op = "calculateIRR"
    /\ call.out.threw
    /\ call.solver.iteration = maxIterations
    /\ IsNaN(call.solver.rate)

\* one pass of the loop from solver s to solver t
IRRPassChecked(allCashFlows, s, t) ==
    /\ (~WithinTolerance(StreamNPV(allCashFlows, s.rate))
          /\ WithinTolerance(StreamNPVDerivative(allCashFlows, s.rate)))
         => (t.at = "flat" /\ t.rate = s.rate /\ t.iteration = s.iteration)
    /\ WithinTolerance(StreamNPV(allCashFlows, s.rate))
         => (t.at = "converged" /\ t.rate = s.rate)

\* C7: a pass that finds the net present value outside the tolerance and the absolute
\* value of its derivative below the tolerance makes no Newton update, and the call
\* fails; a pass that finds the net present value within the tolerance ends the loop
\* whatever the derivative, and the call returns the rate.
C7_FlatDerivativeFails ==
    [][/\ (rootFinder # None /\ rootFinder' # None)
            => IRRPassChecked(rootFinder.allCashFlows, rootFinder.solver, rootFinder'.solver)
       /\ (rootFinder # None /\ rootFinder' = None)
            => /\ rootFinder.solver.at = "flat" => call'.out.threw
               /\ rootFinder.solver.at = "converged"
                    => (~call'.out.threw /\ call'.out.value = rootFinder.solver.rate)
      ]_vars

\* a call has failed on a flat derivative after Newton updates
C7_Witness ==
    /\ call.op = "calculateIRR"
    /\ call.out.threw
    /\ call.solver.at = "flat"
    /\ call.solver.iteration > 0
    /\ ~WithinTolerance(call.solver.npv)

====
